---- MODULE Spec2Model ----
(***************************************************************************)
(* A model of the error-identity core of @blogfolio/types: the error ID    *)
(* codec (stringifyErrorID / parseErrorID), the compile-time uniqueness    *)
(* check of uniqueIDTree, the registry errorIDs, the validator factory     *)
(* zWithErrors and the type-level aggregator GetSchemaErrors; and of the   *)
(* rules built on them: the response envelopes (zSuccessResponse,          *)
(* zFailureResponse, zResponseError), queryArray, booleanString and the    *)
(* name rules of User and Project.                                         *)
(*                                                                         *)
(* Strings are sequences of one-character strings wherever the code looks  *)
(* inside them (the codec); a message of the registry is a sequence of     *)
(* text chunks, a template literal's ${...} hole being the digits of the   *)
(* interpolated number.                                                    *)
(***************************************************************************)
EXTENDS Integers, Sequences, FiniteSets, TLC

VARIABLES
    errorID,        \* codec: the ErrorID handed to stringifyErrorID, or None
    errorIDString,  \* codec: the string handed to parseErrorID
    parsed,         \* codec: the outcome of parseErrorID, or None
    codecPc,        \* codec: "idle" | "stringified" | "given" | "parsed"
    errorMap,       \* tree: the object literal handed to uniqueIDTree
    treeResult,     \* tree: what the call of uniqueIDTree came to, or None
    treePc,         \* tree: "writing" | "called"
    rules,          \* registry: the constants of Post/rules and Project/rules
    registry,       \* registry: what building errorIDs came to, or None
    errorIDMap,     \* factory: the map of local names to ErrorIDs given to zWithErrors
    schemaFactory,  \* factory: the builder given to zWithErrors
    factoryLog,     \* factory: the arguments of the calls of the builder, in order
    zweResult,      \* factory: what the call of zWithErrors came to, or None
    parsedValue,    \* factory: the value last parsed with the returned rule
    issues,         \* factory: the messages of the issues of that parse
    zwePc,          \* factory: "ready" | "called" | "parsed"
    aggSchema,      \* aggregator: the rule GetSchemaErrors is applied to
    aggregate,      \* aggregator: the errors GetSchemaErrors gave, or None
    aggPc,          \* aggregator: "building" | "aggregated"
    request,        \* endpoint: the parts (query, params, body) of the request rule
    badRequestErrors, \* endpoint: the errors InferEndpoint declares for 400, or None
    endpointPc,     \* endpoint: "defining" | "inferred"
    schemaGraph,    \* walk: the rules of a schema by name, their parts named
    pending,        \* walk: the names GetSchemaErrors has still to be taken of
    collected,      \* walk: the errors collected so far
    walkPc,         \* walk: "ready" | "walking" | "done"
    respCall,       \* response: the call that built the rule in use, or None
    respRule,       \* response: the rule that call returned, or None
    respValue,      \* response: the value last parsed with the rule, or None
    respAccepted,   \* response: whether the rule accepted that value
    qaOptions,      \* queryArray: the arguments the rule in use was built with, or None
    qaInput,        \* queryArray: the string last parsed with the rule
    qaOutput,       \* queryArray: what that parse came to, or None
    qaElementSet,   \* queryArray: the elementSet the last run of the transform filled
    qaFailedBefore, \* queryArray: whether a call before the last one failed on the rule
    qaPc,           \* queryArray: "ready" | "built" | "parsed" | "reparsed"
    boolInput,      \* booleanString: the string last parsed
    boolOutput,     \* booleanString: what that parse came to, or None
    boolPc,         \* booleanString: "ready" | "parsed"
    fieldName,      \* fields: the component rule in use, or None
    fieldRule,      \* fields: that rule, or None
    fieldValue,     \* fields: the value last parsed with the rule, or None
    fieldIssues,    \* fields: the messages of the issues of that parse
    fieldPc         \* fields: "ready" | "taken" | "parsed"

codecVars == <<errorID, errorIDString, parsed, codecPc>>

treeVars == <<errorMap, treeResult, treePc>>

registryVars == <<rules, registry>>

factoryVars == <<errorIDMap, schemaFactory, factoryLog, zweResult, parsedValue, issues, zwePc>>

aggregatorVars == <<aggSchema, aggregate, aggPc>>

endpointVars == <<request, badRequestErrors, endpointPc>>

walkVars == <<schemaGraph, pending, collected, walkPc>>

responseVars == <<respCall, respRule, respValue, respAccepted>>

queryVars == <<qaOptions, qaInput, qaOutput, qaElementSet, qaFailedBefore, qaPc>>

booleanVars == <<boolInput, boolOutput, boolPc>>

fieldVars == <<fieldName, fieldRule, fieldValue, fieldIssues, fieldPc>>

vars == <<codecVars, treeVars, registryVars, factoryVars, aggregatorVars, endpointVars,
          walkVars, responseVars, queryVars, booleanVars, fieldVars>>

notCodecVars == <<treeVars, registryVars, factoryVars, aggregatorVars, endpointVars, walkVars,
    responseVars, queryVars, booleanVars, fieldVars>>

notTreeVars == <<codecVars, registryVars, factoryVars, aggregatorVars, endpointVars, walkVars,
    responseVars, queryVars, booleanVars, fieldVars>>

notRegistryVars == <<codecVars, treeVars, factoryVars, aggregatorVars, endpointVars, walkVars,
    responseVars, queryVars, booleanVars, fieldVars>>

notFactoryVars == <<codecVars, treeVars, registryVars, aggregatorVars, endpointVars, walkVars,
    responseVars, queryVars, booleanVars, fieldVars>>

notAggregatorVars == <<codecVars, treeVars, registryVars, factoryVars, endpointVars, walkVars,
    responseVars, queryVars, booleanVars, fieldVars>>

notEndpointVars == <<codecVars, treeVars, registryVars, factoryVars, aggregatorVars, walkVars,
    responseVars, queryVars, booleanVars, fieldVars>>

notWalkVars == <<codecVars, treeVars, registryVars, factoryVars, aggregatorVars,
                 endpointVars, responseVars, queryVars, booleanVars, fieldVars>>

notResponseVars == <<codecVars, treeVars, registryVars, factoryVars, aggregatorVars,
                     endpointVars, walkVars, queryVars, booleanVars, fieldVars>>

notQueryVars == <<codecVars, treeVars, registryVars, factoryVars, aggregatorVars,
                  endpointVars, walkVars, responseVars, booleanVars, fieldVars>>

None == [kind |-> "none"]

\* the constants the messages of Post/ErrorIDs and Project/ErrorIDs interpolate
RuleNames == {"MAX_TITLE_LENGTH", "MAX_SUMMARY_LENGTH", "MAX_BODY_LENGTH",
              "MAX_SLUG_LENGTH", "MAX_PROJECT_NAME"}

\* the rules while no one reads them
UnreadRules == [n \in RuleNames |-> 1]

(***************************************************************************)
(* Bounds.                                                                 *)
(***************************************************************************)
MaxCode == 12
MaxMsgLen == 3
MaxStrLen == 4

\* The characters the bounded inputs are written in: a digit, a letter, the
\* separator and a line terminator.
Chars == {"1", "a", "|", "\n"}

RECURSIVE SeqsUpTo(_, _)
SeqsUpTo(S, n) ==
    IF n = 0 THEN {<<>>}
    ELSE LET shorter == SeqsUpTo(S, n - 1)
         IN  shorter \cup {Append(s, c) : s \in {t \in shorter : Len(t) = n - 1}, c \in S}

(***************************************************************************)
(* Characters and numbers.                                                 *)
(***************************************************************************)
DigitChars == <<"0", "1", "2", "3", "4", "5", "6", "7", "8", "9">>

\* \d of a regular expression
IsDigit(c) == \E i \in 1..10 : DigitChars[i] = c

\* the characters '.' of a regular expression does not match (no s flag)
IsLineTerminator(c) == c \in {"\n", "\r"}

DigitValue(c) == (CHOOSE i \in 1..10 : DigitChars[i] = c) - 1

\* `${n}` of a non-negative integer below 10^21: its decimal digits
RECURSIVE NumberToString(_)
NumberToString(n) ==
    IF n < 10 THEN <<DigitChars[n + 1]>>
    ELSE Append(NumberToString(n \div 10), DigitChars[(n % 10) + 1])

NaN == -1

\* Number(s): the empty string is 0, a string of digits its value, and
\* any other string of the model's characters NaN.
RECURSIVE DigitsToNumber(_)
DigitsToNumber(s) ==
    IF s = <<>> THEN 0
    ELSE DigitsToNumber(SubSeq(s, 1, Len(s) - 1)) * 10 + DigitValue(s[Len(s)])

Number(s) ==
    IF \A i \in 1..Len(s) : IsDigit(s[i]) THEN DigitsToNumber(s) ELSE NaN

(***************************************************************************)
(* The codec.                                                              *)
(***************************************************************************)
ID(code, message) == [kind |-> "leaf", code |-> code, message |-> message]

\* `${errorID.code}|${errorID.message}`
stringifyErrorID(id) == NumberToString(id.code) \o <<"|">> \o id.message

\* the format with \d* for \d+: a string may start with the separator
FormatTest_emptyCode(s) ==
    \E k \in 0..Len(s) :
        /\ \A i \in 1..k : IsDigit(s[i])
        /\ Len(s) >= k + 2
        /\ s[k + 1] = "|"
        /\ \A i \in (k + 2)..Len(s) : ~IsLineTerminator(s[i])

\* /^\d+\|.+$/.test(s): k digits, the separator, then one or more
\* characters none of which is a line terminator, up to the end of input.
FormatTest(s) ==
    \E k \in 1..Len(s) :
        /\ \A i \in 1..k : IsDigit(s[i])
        /\ Len(s) >= k + 2
        /\ s[k + 1] = "|"
        /\ \A i \in (k + 2)..Len(s) : ~IsLineTerminator(s[i])

\* the places /(?<=^\d+)\|/ matches: a separator with one or more digits,
\* and nothing else, between the start of the string and it
SeparatorMatches(s) ==
    {i \in 1..Len(s) :
        /\ s[i] = "|"
        /\ i > 1
        /\ \A j \in 1..(i - 1) : IsDigit(s[j])}

\* String.prototype.split at the given match places (each one character
\* wide): the pieces between consecutive matches.
RECURSIVE SplitAt(_, _, _)
SplitAt(s, from, places) ==
    LET later == {i \in places : i >= from}
    IN  IF later = {} THEN <<SubSeq(s, from, Len(s))>>
        ELSE LET next == CHOOSE i \in later : \A j \in later : i <= j
             IN  <<SubSeq(s, from, next - 1)>> \o SplitAt(s, next + 1, places)

Split(s) == SplitAt(s, 1, SeparatorMatches(s))

Thrown(what) == [kind |-> "thrown", error |-> what]

Returned(value) == [kind |-> "returned", value |-> value]

\* parseErrorID: throws unless the format matches, else destructures the
\* first two pieces of the split into code and message.
parseErrorID(s) ==
    IF ~FormatTest(s) THEN Thrown("Cannot parse invalid error ID string")
    ELSE LET pieces == Split(s)
         IN  Returned(ID(Number(pieces[1]),
                         IF Len(pieces) >= 2 THEN pieces[2] ELSE <<"undefined">>))

(***************************************************************************)
(* uniqueIDTree.  The check is TypeScript's, at compile time, on the type  *)
(* of the argument; the model computes the type operators on trees whose   *)
(* leaves have the literal types `as const` gives them (as every table of  *)
(* the repository has).  A type is the set of the values it holds: never   *)
(* is the empty set and `A extends B` is inclusion.                        *)
(***************************************************************************)
Map(entries) == [kind |-> "map", entries |-> entries]

\* a value that is neither an ErrorID nor a mapping: a bare string
Prim == [kind |-> "prim"]

\* the type never, where the type operators produce it
Never == [kind |-> "never"]

EmptyEntries == <<>>

\* the type of field F ("code" or "message") of a leaf type
FieldType(t, F) == IF t.kind = "leaf" THEN {t[F]} ELSE {}

Extends(a, b) == a \subseteq b

\* T[x] extends BaseErrorID (a conditional type on an indexed access does
\* not distribute, so never extends BaseErrorID)
ExtendsBaseErrorID(t) == t.kind \in {"leaf", "never"}

\* T[x] extends object
ExtendsObject(t) == t.kind \in {"leaf", "map"}

Extend(T, k, v) == [x \in (DOMAIN T) \cup {k} |-> IF x = k THEN v ELSE T[x]]

\* KeysToDotPath<T, S>: every key renamed to `${S}${x}`; a leaf kept, a
\* mapping renamed in turn under the prefix `${S}${x}.`, anything else never
RECURSIVE KeysToDotPath(_, _)
KeysToDotPath(T, S) ==
    LET Renamed(x) == S \o x
        New(x) == IF T[x].kind = "leaf" THEN T[x]
                  ELSE IF ExtendsObject(T[x])
                       THEN Map(KeysToDotPath(T[x].entries, S \o x \o <<".">>))
                       ELSE Never
    IN  [p \in {Renamed(x) : x \in DOMAIN T} |->
            New(CHOOSE x \in DOMAIN T : Renamed(x) = p)]

\* Leaves<T>: the record of the keys whose value extends BaseErrorID,
\* intersected with Leaves of every other value that is an object.  The
\* intersection is kept as the set of its constituents; a value that is no
\* object gives never, which the union L[keyof L] drops, and
\* UnionToIntersection<never> is unknown.
RECURSIVE Leaves(_)
Leaves(T) ==
    LET own == [x \in {y \in DOMAIN T : ExtendsBaseErrorID(T[y])} |-> T[x]]
        others == {x \in DOMAIN T : ~ExtendsBaseErrorID(T[x]) /\ ExtendsObject(T[x])}
    IN  {own} \cup UNION {Leaves(T[x].entries) : x \in others}

\* keyof V and V[k] of an intersection V of records: two different literal
\* leaf types intersect to never
KeysOf(V) == UNION {DOMAIN r : r \in V}

PropertyOf(V, k) ==
    LET types == {r[k] : r \in {q \in V : k \in DOMAIN q}}
    IN  IF Cardinality(types) = 1 THEN CHOOSE t \in types : TRUE ELSE Never

\* V extends Record<string, BaseErrorID>
ExtendsRecordOfIDs(V) == \A k \in KeysOf(V) : ExtendsBaseErrorID(PropertyOf(V, k))

\* the type parameter I of uniqueIDTree: { [k in keyof V]: V[k] } for
\* V = Leaves<KeysToDotPath<T>>, or Record<string, BaseErrorID>, which has
\* no key to compare
FlatLeaves(T) ==
    LET V == Leaves(KeysToDotPath(T, <<>>))
    IN  IF ExtendsRecordOfIDs(V) THEN [k \in KeysOf(V) |-> PropertyOf(V, k)]
        ELSE EmptyEntries

\* DuplicateFieldValues<T, F>: the union of T[x][F] over the keys x for
\* which some other key I has T[I][F] extends T[x][F]
DuplicateFieldValues(I, F) ==
    UNION {FieldType(I[x], F) :
             x \in {y \in DOMAIN I :
                      \E i \in (DOMAIN I) \ {y} :
                          Extends(FieldType(I[i], F), FieldType(I[y], F))}}

\* MapDuplicateFieldsToErrors<T, F>: each duplicated value mapped to the
\* keys K with T[K][F] extends it
MapDuplicateFieldsToErrors(I, F) ==
    [v \in DuplicateFieldValues(I, F) |->
        {K \in DOMAIN I : Extends(FieldType(I[K], F), {v})}]

NoError == "none"
DuplicatesError == "Duplicate codes/messages exist"
LeavesError == "Leaves must satisfy type Record<string, BaseErrorID>"

\* uniqueIDTree: the parameter has the type T when Leaves<T> is a record of
\* IDs and {} extends DCode & DMessage, else a tuple no object is assignable
\* to, so the call does not compile; at run time it returns its argument.
uniqueIDTree(tree) ==
    LET T == tree.entries
        I == FlatLeaves(T)
        DCode == MapDuplicateFieldsToErrors(I, "code")
        DMessage == MapDuplicateFieldsToErrors(I, "message")
        error == IF ~ExtendsRecordOfIDs(Leaves(T)) THEN LeavesError
                 ELSE IF DOMAIN DCode # {} \/ DOMAIN DMessage # {} THEN DuplicatesError
                 ELSE NoError
    IN  [accepted |-> error = NoError,
         error |-> error,
         duplicateCodes |-> IF error = DuplicatesError THEN DCode ELSE EmptyEntries,
         duplicateMessages |-> IF error = DuplicatesError THEN DMessage ELSE EmptyEntries,
         returned |-> IF error = NoError THEN tree ELSE None]

(***************************************************************************)
(* The trees a module may hand to uniqueIDTree: an object literal written  *)
(* entry by entry, then the call.                                          *)
(***************************************************************************)
MaxNodes == 4

Keys == {<<"a">>, <<"b">>, <<"a", ".", "b">>}

EntryPaths == {<<k>> : k \in Keys} \cup {<<k1, k2>> : k1 \in Keys, k2 \in Keys}

TestIDs == {ID(1, <<"m">>), ID(1, <<"n">>), ID(2, <<"n">>), ID(3, <<"o">>)}

EntryValues == TestIDs \cup {Prim, Map(EmptyEntries)}

RECURSIVE SumOver(_, _)
SumOver(S, f) ==
    IF S = {} THEN 0
    ELSE LET x == CHOOSE y \in S : TRUE IN f[x] + SumOver(S \ {x}, f)

RECURSIVE NodeCount(_)
NodeCount(T) ==
    SumOver(DOMAIN T,
            [x \in DOMAIN T |->
                IF T[x].kind = "map" THEN 1 + NodeCount(T[x].entries) ELSE 1])

RECURSIVE CanSet(_, _)
CanSet(T, path) ==
    LET k == Head(path)
    IN  IF Len(path) = 1 THEN k \notin DOMAIN T
        ELSE IF k \notin DOMAIN T THEN TRUE
             ELSE T[k].kind = "map" /\ CanSet(T[k].entries, Tail(path))

RECURSIVE SetAt(_, _, _)
SetAt(T, path, v) ==
    LET k == Head(path)
    IN  IF Len(path) = 1 THEN Extend(T, k, v)
        ELSE Extend(T, k,
                    Map(SetAt(IF k \in DOMAIN T THEN T[k].entries ELSE EmptyEntries,
                              Tail(path), v)))

CodecIdle ==
    /\ errorID = None
    /\ errorIDString = <<>>
    /\ parsed = None
    /\ codecPc = "idle"

TreeIdle ==
    /\ errorMap = Map(EmptyEntries)
    /\ treeResult = None
    /\ treePc = "writing"

RegistryIdle ==
    /\ rules = UnreadRules
    /\ registry = None

\* z.string() without checks
zString == [kind |-> "string", checks |-> <<>>]

FactoryIdle ==
    /\ errorIDMap = EmptyEntries
    /\ schemaFactory = [kind |-> "plain"]
    /\ factoryLog = <<>>
    /\ zweResult = None
    /\ parsedValue = <<>>
    /\ issues = <<>>
    /\ zwePc = "ready"

AggregatorIdle ==
    /\ aggSchema = [kind |-> "string", tagged |-> FALSE, schemaErrors |-> {}]
    /\ aggregate = None
    /\ aggPc = "building"

ResponseIdle ==
    /\ respCall = None
    /\ respRule = None
    /\ respValue = None
    /\ respAccepted = FALSE

notBooleanVars == <<codecVars, treeVars, registryVars, factoryVars, aggregatorVars,
                    endpointVars, walkVars, responseVars, queryVars, fieldVars>>

notFieldVars == <<codecVars, treeVars, registryVars, factoryVars, aggregatorVars,
                  endpointVars, walkVars, responseVars, queryVars, booleanVars>>

FieldIdle ==
    /\ fieldName = None
    /\ fieldRule = None
    /\ fieldValue = None
    /\ fieldIssues = <<>>
    /\ fieldPc = "ready"

BooleanIdle ==
    /\ boolInput = <<>>
    /\ boolOutput = None
    /\ boolPc = "ready"

QueryIdle ==
    /\ qaOptions = None
    /\ qaInput = <<>>
    /\ qaOutput = None
    /\ qaElementSet = {}
    /\ qaFailedBefore = FALSE
    /\ qaPc = "ready"

WalkIdle ==
    /\ schemaGraph = <<>>
    /\ pending = {}
    /\ collected = {}
    /\ walkPc = "ready"

EndpointIdle ==
    /\ request = <<>>
    /\ badRequestErrors = None
    /\ endpointPc = "defining"

TreeInit ==
    /\ TreeIdle
    /\ EndpointIdle
    /\ WalkIdle
    /\ ResponseIdle
    /\ QueryIdle
    /\ BooleanIdle
    /\ FieldIdle
    /\ CodecIdle
    /\ RegistryIdle
    /\ FactoryIdle
    /\ AggregatorIdle

WriteEntry(path, v) ==
    /\ treePc = "writing"
    /\ CanSet(errorMap.entries, path)
    /\ NodeCount(SetAt(errorMap.entries, path, v)) <= MaxNodes
    /\ errorMap' = Map(SetAt(errorMap.entries, path, v))
    /\ UNCHANGED <<treeResult, treePc, notTreeVars>>

CallUniqueIDTree ==
    /\ treePc = "writing"
    /\ treeResult' = uniqueIDTree(errorMap)
    /\ treePc' = "called"
    /\ UNCHANGED <<errorMap, notTreeVars>>

TreeNext ==
    \/ \E path \in EntryPaths, v \in EntryValues : WriteEntry(path, v)
    \/ CallUniqueIDTree

SpecTree == TreeInit /\ [][TreeNext]_vars

(***************************************************************************)
(* What the claims about uniqueIDTree speak of, read off the tree itself   *)
(* by a plain walk: the places of its leaves, and its bare values.         *)
(***************************************************************************)
\* the leaves of a tree, each with the sequence of keys that leads to it
RECURSIVE LeafPlaces(_)
LeafPlaces(T) ==
    {<<(<<x>>), T[x]>> : x \in {y \in DOMAIN T : T[y].kind = "leaf"}}
    \cup UNION {{<<(<<x>>) \o place[1], place[2]>> : place \in LeafPlaces(T[x].entries)} :
                   x \in {y \in DOMAIN T : T[y].kind = "map"}}

RECURSIVE HasBareValue(_)
HasBareValue(T) ==
    \E x \in DOMAIN T :
        IF T[x].kind = "map" THEN HasBareValue(T[x].entries) ELSE T[x].kind = "prim"

\* the keys of a place joined by dots
RECURSIVE DotPath(_)
DotPath(keys) ==
    IF Len(keys) = 1 THEN keys[1] ELSE keys[1] \o <<".">> \o DotPath(Tail(keys))

SameCode(T) ==
    \E p \in LeafPlaces(T), q \in LeafPlaces(T) : p # q /\ p[2].code = q[2].code

SameMessage(T) ==
    \E p \in LeafPlaces(T), q \in LeafPlaces(T) : p # q /\ p[2].message = q[2].message

(***************************************************************************)
(* C3: uniqueIDTree rejects every tree in which two distinct leaves, at    *)
(* any depth and in the same or in different domains, have the same code,  *)
(* and every tree in which two distinct leaves have the same message.      *)
(***************************************************************************)
C3_CollisionRejected ==
    (treePc = "called" /\ (SameCode(errorMap.entries) \/ SameMessage(errorMap.entries))) =>
        ~treeResult.accepted

(***************************************************************************)
(* C4: a tree made only of nested mappings and leaves whose codes are      *)
(* pairwise distinct and whose messages are pairwise distinct is accepted  *)
(* and returned exactly as given.                                          *)
(***************************************************************************)
C4_DistinctAccepted ==
    (/\ treePc = "called"
     /\ ~HasBareValue(errorMap.entries)
     /\ ~SameCode(errorMap.entries)
     /\ ~SameMessage(errorMap.entries)) =>
        treeResult.accepted /\ treeResult.returned = errorMap

(***************************************************************************)
(* C6: uniqueIDTree rejects every tree that holds somewhere a value that   *)
(* is neither an error identifier nor a nested mapping.                    *)
(***************************************************************************)
C6_BareValueRejected ==
    (treePc = "called" /\ HasBareValue(errorMap.entries)) => ~treeResult.accepted

(***************************************************************************)
(* C7: when uniqueIDTree fails on a collision, the reported duplicates     *)
(* give, for each duplicated code (and each duplicated message), exactly   *)
(* the dot paths of the leaves that carry it, and no path of a leaf whose  *)
(* code and message are unique.                                            *)
(***************************************************************************)
Carriers(T, F, v) == {DotPath(p[1]) : p \in {q \in LeafPlaces(T) : q[2][F] = v}}

Duplicated(T, F) ==
    {p[2][F] : p \in {q \in LeafPlaces(T) :
                        \E r \in LeafPlaces(T) : r # q /\ r[2][F] = q[2][F]}}

C7_ReportedPaths ==
    (/\ treePc = "called"
     /\ treeResult.error = DuplicatesError
     /\ (SameCode(errorMap.entries) \/ SameMessage(errorMap.entries))) =>
        /\ DOMAIN treeResult.duplicateCodes = Duplicated(errorMap.entries, "code")
        /\ \A v \in DOMAIN treeResult.duplicateCodes :
               treeResult.duplicateCodes[v] = Carriers(errorMap.entries, "code", v)
        /\ DOMAIN treeResult.duplicateMessages = Duplicated(errorMap.entries, "message")
        /\ \A v \in DOMAIN treeResult.duplicateMessages :
               treeResult.duplicateMessages[v] = Carriers(errorMap.entries, "message", v)

(***************************************************************************)
(* The registry errorIDs: the tables of the domains, merged under their    *)
(* domain names and handed to uniqueIDTree when the module is loaded.      *)
(* A key is one chunk of text.  The constants of Post/rules and            *)
(* Project/rules, which four Post messages and one Project message         *)
(* interpolate, are not in the sources at hand: any values.                *)
(***************************************************************************)
MaxRule == 3

UserErrorIDs ==
    (<<"NoLogin">> :> ID(200, <<"Username or email doesn't exist">>)) @@
    (<<"UserExists">> :> ID(201, <<"A user with these login credentials already exists">>)) @@
    (<<"UserNotFound">> :> ID(202, <<"User doesn't exist">>)) @@
    (<<"SamePassword">> :> ID(203, <<"New password same as original">>)) @@
    (<<"WeakPassword">> :> ID(204, <<"Password not strong enough">>)) @@
    (<<"ShortPassword">> :> ID(205, <<"Password should be 8 characters or longer">>)) @@
    (<<"LongPassword">> :> ID(206, <<"Password can't be longer than 50 characters">>)) @@
    (<<"InvalidPassword">> :> ID(207, <<"Password can only have letters, numbers and symbols">>)) @@
    (<<"WrongTypePassword">> :> ID(208, <<"Password should be a string">>)) @@
    (<<"UsernameExists">> :> ID(209, <<"Username already taken">>)) @@
    (<<"ShortUsername">> :> ID(210, <<"Username can't be shorter than 6 characters">>)) @@
    (<<"LongUsername">> :> ID(211, <<"Username can't be longer than 30 characters">>)) @@
    (<<"InvalidUsername">> :> ID(212, <<"Username can only contain letters, numbers, and non-sequential periods">>)) @@
    (<<"WrongTypeUsername">> :> ID(213, <<"Username should be a string">>)) @@
    (<<"EmailExists">> :> ID(214, <<"Email already taken">>)) @@
    (<<"InvalidEmail">> :> ID(215, <<"Email format invalid">>)) @@
    (<<"WrongTypeEmail">> :> ID(216, <<"Email should be a string">>)) @@
    (<<"BlankBio">> :> ID(217, <<"Bio can't be a blank string">>)) @@
    (<<"LongBio">> :> ID(218, <<"Bio can't be longer than 300 characters">>)) @@
    (<<"WrongTypeBio">> :> ID(219, <<"Bio should be a string">>)) @@
    (<<"BlankFirstName">> :> ID(220, <<"First name can't be a blank string">>)) @@
    (<<"LongFirstName">> :> ID(221, <<"First name can't be longer than 50 characters">>)) @@
    (<<"WrongTypeFirstName">> :> ID(222, <<"First name should be a string">>)) @@
    (<<"BlankLastName">> :> ID(223, <<"Last name can't be a blank string">>)) @@
    (<<"LongLastName">> :> ID(224, <<"Last name can't be longer than 50 characters">>)) @@
    (<<"WrongTypeLastName">> :> ID(225, <<"Last name should be a string">>)) @@
    (<<"AlreadyFollowing">> :> ID(226, <<"Target is already followed by the input user">>)) @@
    (<<"NotFollowing">> :> ID(227, <<"Target not followed by the input user">>)) @@
    (<<"AlreadyActivated">> :> ID(228, <<"User account is already activated">>))

PostErrorIDs ==
    (<<"BlankTitle">> :> ID(300, <<"Post title cannot be blank">>)) @@
    (<<"LongTitle">> :> ID(301, <<"Post title cannot exceed ">> \o NumberToString(rules.MAX_TITLE_LENGTH) \o <<" characters">>)) @@
    (<<"LongSummary">> :> ID(302, <<"Post summary cannot exceed ">> \o NumberToString(rules.MAX_SUMMARY_LENGTH) \o <<" characters">>)) @@
    (<<"LongBody">> :> ID(303, <<"Post body cannot exceed ">> \o NumberToString(rules.MAX_BODY_LENGTH) \o <<" characters">>)) @@
    (<<"InvalidSlug">> :> ID(304, <<"Post slug can only contain alphanumeric characters and inner non-consecutive dashes">>)) @@
    (<<"LongSlug">> :> ID(305, <<"Post slug cannot exceed ">> \o NumberToString(rules.MAX_SLUG_LENGTH) \o <<" characters in total">>)) @@
    (<<"UnavailableSlug">> :> ID(306, <<"Post slug already taken">>)) @@
    (<<"NotFound">> :> ID(307, <<"Post not found">>))

CommentErrorIDs ==
    (<<"NotFound">> :> ID(400, <<"Comment not found">>)) @@
    (<<"BodyBlank">> :> ID(401, <<"Comment body cannot be blank">>)) @@
    (<<"IDBlank">> :> ID(402, <<"Comment ID cannot be blank">>))

AuthErrorIDs ==
    (<<"IncorrectPassword">> :> ID(10, <<"Incorrect login password">>))

EmoteErrorIDs ==
    (<<"IDInvalid">> :> ID(500, <<"Emote IDs can only be positive integers">>)) @@
    (<<"NotFound">> :> ID(501, <<"Emote not found">>)) @@
    (<<"NoEmotePost">> :> ID(502, <<"This user hasn't emoted on this post">>)) @@
    (<<"NoEmoteComment">> :> ID(503, <<"This user hasn't emoted on this comment">>))

GeneralErrorIDs ==
    (<<"ServerError">> :> ID(1, <<"Server error">>)) @@
    (<<"InvalidRequest">> :> ID(2, <<"Invalid request">>)) @@
    (<<"NotFound">> :> ID(3, <<"Resource not found">>))

ProjectErrorIDs ==
    (<<"notFound">> :> ID(600, <<"Project not found">>)) @@
    (<<"nameBlank">> :> ID(601, <<"Project name cannot be blank">>)) @@
    (<<"nameTooLong">> :> ID(602, <<"Project name cannot exceed ">> \o NumberToString(rules.MAX_PROJECT_NAME) \o <<" characters">>)) @@
    (<<"descriptionBlank">> :> ID(603, <<"Project description cannot be blank">>)) @@
    (<<"skillBlank">> :> ID(604, <<"A skill cannot be blank">>)) @@
    (<<"priorityInvalid">> :> ID(606, <<"Project priority can only be positive integers">>))

\* the QueryArray table with the code of InvalidValue given to Duplicate too
QueryArrayErrorIDs_sameCode ==
    (<<"InvalidFormat">> :> ID(900, <<"Invalid request query array format">>)) @@
    (<<"Duplicate">> :> ID(902, <<"Query array duplicates not allowed for this request parameter">>)) @@
    (<<"InvalidValue">> :> ID(902, <<"Request query array value is not valid">>))

QueryArrayErrorIDs ==
    (<<"InvalidFormat">> :> ID(900, <<"Invalid request query array format">>)) @@
    (<<"Duplicate">> :> ID(901, <<"Query array duplicates not allowed for this request parameter">>)) @@
    (<<"InvalidValue">> :> ID(902, <<"Request query array value is not valid">>))

\* the argument of uniqueIDTree in ResponseError/ErrorID
errorIDsArgument ==
    Map((<<"User">> :> Map(UserErrorIDs)) @@
        (<<"Post">> :> Map(PostErrorIDs)) @@
        (<<"Comment">> :> Map(CommentErrorIDs)) @@
        (<<"Authentication">> :> Map(AuthErrorIDs)) @@
        (<<"Emote">> :> Map(EmoteErrorIDs)) @@
        (<<"General">> :> Map(GeneralErrorIDs)) @@
        (<<"Project">> :> Map(ProjectErrorIDs)) @@
        (<<"Request">> :> Map((<<"QueryArray">> :> Map(QueryArrayErrorIDs)))))

RegistryInit ==
    /\ rules \in [RuleNames -> 1..MaxRule]
    /\ registry = None
    /\ CodecIdle
    /\ EndpointIdle
    /\ WalkIdle
    /\ ResponseIdle
    /\ QueryIdle
    /\ BooleanIdle
    /\ FieldIdle
    /\ TreeIdle
    /\ FactoryIdle
    /\ AggregatorIdle

\* const errorIDs = uniqueIDTree({...})
BuildErrorIDs ==
    /\ registry = None
    /\ registry' = uniqueIDTree(errorIDsArgument)
    /\ UNCHANGED <<rules, notRegistryVars>>

RegistryNext == BuildErrorIDs

SpecRegistry == RegistryInit /\ [][RegistryNext]_vars

(***************************************************************************)
(* C5: in the registry built by merging the General, User, Post, Comment,  *)
(* Authentication, Emote, Project and Request.QueryArray tables, no two    *)
(* registered identifiers share a code and no two share a message.         *)
(***************************************************************************)
C5_RegistryUnique ==
    registry # None =>
        /\ registry.accepted
        /\ \A p \in LeafPlaces(registry.returned.entries),
              q \in LeafPlaces(registry.returned.entries) :
               p # q => p[2].code # q[2].code /\ p[2].message # q[2].message

\* the registry is built and holds the leaves of every table, the three of
\* Request.QueryArray among them
C5_Witness ==
    /\ registry # None
    /\ registry.accepted
    /\ Cardinality(LeafPlaces(registry.returned.entries)) = 57
    /\ <<(<<(<<"Request">>), (<<"QueryArray">>), (<<"Duplicate">>)>>),
         ID(901, <<"Query array duplicates not allowed for this request parameter">>)>>
           \in LeafPlaces(registry.returned.entries)

(***************************************************************************)
(* zWithErrors.  A builder is one of the shapes the repository's builders  *)
(* have (Post.title: z.string().min(1, blank).max(N, long)), or one that   *)
(* throws; the rule it builds is a string rule with its checks, each       *)
(* carrying the message it was given.                                      *)
(***************************************************************************)
MaxValueLen == 3

LocalNames == {"blank", "long"}

FactoryIDs == {ID(999, <<"T", "e", "s", "t">>), ID(301, <<"a", "|", "b">>)}

ErrorIDMaps == UNION {[names -> FactoryIDs] : names \in SUBSET LocalNames}

SchemaFactories ==
    {[kind |-> "plain"]}
    \cup {[kind |-> "min", min |-> 1]}
    \cup {[kind |-> "max", max |-> n] : n \in 1..(MaxValueLen - 1)}
    \cup {[kind |-> "minmax", min |-> 1, max |-> n] : n \in 1..(MaxValueLen - 1)}
    \cup {[kind |-> "throws", error |-> e] : e \in {"TypeError", "RangeError"}}

\* the local names a builder destructures from its argument
NamesUsed(factory) ==
    CASE factory.kind = "min" -> {"blank"}
      [] factory.kind = "max" -> {"long"}
      [] factory.kind = "minmax" -> {"blank", "long"}
      [] OTHER -> {}

Check(kind, n, message) == [kind |-> kind, value |-> n, message |-> message]

\* schemaFactory(errors): the rule the builder builds, or its exception
ApplyFactory(factory, errors) ==
    CASE factory.kind = "plain" -> Returned(zString)
      [] factory.kind = "min" ->
           Returned([zString EXCEPT !.checks = <<Check("min", factory.min, errors["blank"])>>])
      [] factory.kind = "max" ->
           Returned([zString EXCEPT !.checks = <<Check("max", factory.max, errors["long"])>>])
      [] factory.kind = "minmax" ->
           Returned([zString EXCEPT !.checks =
                        <<Check("min", factory.min, errors["blank"]),
                          Check("max", factory.max, errors["long"])>>])
      [] factory.kind = "throws" -> Thrown(factory.error)

\* whether a string value fails a check of a string rule
Fails(check, v) ==
    CASE check.kind = "min" -> Len(v) < check.value
      [] check.kind = "max" -> Len(v) > check.value

\* schema.safeParse(v): the messages of the issues, one for every failed
\* check, in the order of the checks
RECURSIVE IssueMessages(_, _)
IssueMessages(checks, v) ==
    IF checks = <<>> THEN <<>>
    ELSE (IF Fails(Head(checks), v) THEN <<Head(checks).message>> ELSE <<>>)
         \o IssueMessages(Tail(checks), v)

\* zWithErrors handing the builder the bare messages, not the encoded IDs
zWithErrors_rawMessages(idMap, factory) ==
    LET errorStrings == [key \in DOMAIN idMap |-> idMap[key].message]
    IN  [log |-> <<errorStrings>>,
         outcome |-> ApplyFactory(factory, errorStrings),
         errorIDMap |-> idMap]

\* zWithErrors catching the builder's exception and returning a plain rule
zWithErrors_swallows(idMap, factory) ==
    LET errorStrings == [key \in DOMAIN idMap |-> stringifyErrorID(idMap[key])]
        schema == ApplyFactory(factory, errorStrings)
    IN  [log |-> <<errorStrings>>,
         outcome |-> IF schema.kind = "thrown" THEN Returned(zString) ELSE schema,
         errorIDMap |-> idMap]

\* zWithErrors(errorIDMap, schemaFactory): the arguments the builder was
\* called with, what came of the call, and the map as the call leaves it
zWithErrors(idMap, factory) ==
    LET errorStrings == [key \in DOMAIN idMap |-> stringifyErrorID(idMap[key])]
        schema == ApplyFactory(factory, errorStrings)
    IN  [log |-> <<errorStrings>>,
         outcome |-> schema,
         errorIDMap |-> idMap]

StringValues == {[i \in 1..n |-> "x"] : n \in 0..MaxValueLen}

FactoryInit ==
    /\ errorIDMap \in ErrorIDMaps
    /\ schemaFactory \in {f \in SchemaFactories : NamesUsed(f) \subseteq DOMAIN errorIDMap}
    /\ factoryLog = <<>>
    /\ zweResult = None
    /\ parsedValue = <<>>
    /\ issues = <<>>
    /\ zwePc = "ready"
    /\ CodecIdle
    /\ EndpointIdle
    /\ WalkIdle
    /\ ResponseIdle
    /\ QueryIdle
    /\ BooleanIdle
    /\ FieldIdle
    /\ TreeIdle
    /\ RegistryIdle
    /\ AggregatorIdle

CallZWithErrors ==
    /\ zwePc = "ready"
    /\ LET call == zWithErrors(errorIDMap, schemaFactory)
       IN  /\ factoryLog' = factoryLog \o call.log
           /\ zweResult' = call.outcome
           /\ errorIDMap' = call.errorIDMap
    /\ zwePc' = "called"
    /\ UNCHANGED <<schemaFactory, parsedValue, issues, notFactoryVars>>

ParseValue(v) ==
    /\ zwePc = "called"
    /\ zweResult.kind = "returned"
    /\ parsedValue' = v
    /\ issues' = IssueMessages(zweResult.value.checks, v)
    /\ zwePc' = "parsed"
    /\ UNCHANGED <<errorIDMap, schemaFactory, factoryLog, zweResult, notFactoryVars>>

FactoryNext ==
    \/ CallZWithErrors
    \/ \E v \in StringValues : ParseValue(v)

SpecFactory == FactoryInit /\ [][FactoryNext]_vars

(***************************************************************************)
(* C8: zWithErrors calls the builder with a mapping that has exactly the   *)
(* local names of the supplied map, each mapped to stringifyErrorID of its *)
(* identifier, and returns the rule the builder built from it; a value     *)
(* that fails a predicate of that rule is reported with exactly the        *)
(* encoded string of the identifier attached to that predicate, '999|Test' *)
(* for {code: 999, message: 'Test'}.                                       *)
(***************************************************************************)
\* the messages a parse must report, read off the supplied map
ExpectedMessages(idMap, factory, v) ==
    (IF "blank" \in NamesUsed(factory) /\ Len(v) < factory.min
     THEN <<NumberToString(idMap["blank"].code) \o <<"|">> \o idMap["blank"].message>>
     ELSE <<>>)
    \o (IF "long" \in NamesUsed(factory) /\ Len(v) > factory.max
        THEN <<NumberToString(idMap["long"].code) \o <<"|">> \o idMap["long"].message>>
        ELSE <<>>)

C8_EncodedMessages ==
    (zwePc # "ready" /\ schemaFactory.kind # "throws") =>
        /\ Len(factoryLog) >= 1
        /\ DOMAIN factoryLog[1] = DOMAIN errorIDMap
        /\ \A name \in DOMAIN errorIDMap :
               factoryLog[1][name] = stringifyErrorID(errorIDMap[name])
        /\ zweResult = ApplyFactory(schemaFactory, factoryLog[1])
        /\ zwePc = "parsed" =>
               /\ issues = ExpectedMessages(errorIDMap, schemaFactory, parsedValue)
               /\ ("blank" \in NamesUsed(schemaFactory)
                   /\ errorIDMap["blank"] = ID(999, <<"T", "e", "s", "t">>)
                   /\ parsedValue = <<>>) =>
                      issues[1] = <<"9", "9", "9", "|", "T", "e", "s", "t">>

\* the rule built with {code: 999, message: 'Test'} has rejected the empty
\* string with '999|Test'
C8_Witness ==
    /\ zwePc = "parsed"
    /\ schemaFactory.kind = "minmax"
    /\ errorIDMap["blank"] = ID(999, <<"T", "e", "s", "t">>)
    /\ parsedValue = <<>>
    /\ issues = <<(<<"9", "9", "9", "|", "T", "e", "s", "t">>)>>

(***************************************************************************)
(* C9: zWithErrors has no failure of its own and no side effect: it calls  *)
(* the builder exactly once; if the builder throws, that same exception    *)
(* reaches the caller and no rule is returned; and the supplied map is     *)
(* left unchanged.                                                         *)
(***************************************************************************)
C9_CallStep ==
    (zwePc = "ready" /\ zwePc' = "called") =>
        /\ Len(factoryLog') = Len(factoryLog) + 1
        /\ errorIDMap' = errorIDMap
        /\ IF schemaFactory.kind = "throws"
           THEN zweResult' = Thrown(schemaFactory.error)
           ELSE zweResult'.kind = "returned"

C9_Delegates == [][C9_CallStep]_vars

\* a builder has thrown and the call has ended with its exception
C9_Witness ==
    /\ zwePc = "called"
    /\ schemaFactory.kind = "throws"
    /\ zweResult = Thrown("RangeError")
    /\ Len(factoryLog) = 1

(***************************************************************************)
(* GetSchemaErrors.  A rule is a record of its zod class (kind), of what   *)
(* the class holds (options, shape, element, innerType) and of its tag:    *)
(* tagged is whether the type has the property __schemaErrors, which only  *)
(* zWithErrors adds, and schemaErrors the ErrorIDs of that property.       *)
(* SchemaError<E> is E itself when there is no data, so the type a tag     *)
(* stands for is the union of its ErrorIDs, kept as their set.             *)
(***************************************************************************)
MaxDepth == 2

ZodString == [kind |-> "string", tagged |-> FALSE, schemaErrors |-> {}]

ZodUnion(options) ==
    [kind |-> "union", options |-> options, tagged |-> FALSE, schemaErrors |-> {}]

ZodObject(shape) ==
    [kind |-> "object", shape |-> shape, tagged |-> FALSE, schemaErrors |-> {}]

ZodArray(element) ==
    [kind |-> "array", element |-> element, tagged |-> FALSE, schemaErrors |-> {}]

ZodOptional(inner) ==
    [kind |-> "optional", innerType |-> inner, tagged |-> FALSE, schemaErrors |-> {}]

ZodNullable(inner) ==
    [kind |-> "nullable", innerType |-> inner, tagged |-> FALSE, schemaErrors |-> {}]

\* schema.refine(...), schema.transform(...): ZodEffects, whose _def holds
\* the wrapped rule under the name schema
ZodEffects(inner) ==
    [kind |-> "effects", schema |-> inner, tagged |-> FALSE, schemaErrors |-> {}]

\* left.and(right): ZodIntersection, whose _def holds left and right
ZodIntersection(left, right) ==
    [kind |-> "intersection", left |-> left, right |-> right,
     tagged |-> FALSE, schemaErrors |-> {}]

\* ZodSchemaWithErrors<T, E>: T & { __schemaErrors: SchemaError<E> }
ZodSchemaWithErrors(T, E) == [T EXCEPT !.tagged = TRUE, !.schemaErrors = E]

\* T extends ZodTypeAny & { _def: { innerType: ZodTypeAny } }
HasInnerType(T) == T.kind \in {"optional", "nullable"}

\* GetSchemaErrors without the distribution over the options of a union
RECURSIVE GetSchemaErrors_firstOption(_)
GetSchemaErrors_firstOption(T) ==
    IF T.tagged THEN T.schemaErrors
    ELSE CASE T.kind = "union" -> GetSchemaErrors_firstOption(T.options[1])
           [] T.kind = "object" ->
                UNION {GetSchemaErrors_firstOption(T.shape[key]) : key \in DOMAIN T.shape}
           [] T.kind = "array" -> GetSchemaErrors_firstOption(T.element)
           [] HasInnerType(T) -> GetSchemaErrors_firstOption(T.innerType)
           [] OTHER -> {}

\* GetSchemaErrors<T>: the first branch that T extends decides; the
\* conditionals over the options and over the properties distribute.
RECURSIVE GetSchemaErrors(_)
GetSchemaErrors(T) ==
    IF T.tagged THEN T.schemaErrors
    ELSE CASE T.kind = "union" ->
                UNION {GetSchemaErrors(T.options[i]) : i \in DOMAIN T.options}
           [] T.kind = "object" ->
                UNION {GetSchemaErrors(T.shape[key]) : key \in DOMAIN T.shape}
           [] T.kind = "array" -> GetSchemaErrors(T.element)
           [] HasInnerType(T) -> GetSchemaErrors(T.innerType)
           [] OTHER -> {}

Max(S) == CHOOSE x \in S : \A y \in S : y <= x

RECURSIVE Depth(_)
Depth(T) ==
    CASE T.kind = "union" -> 1 + Max({Depth(T.options[i]) : i \in DOMAIN T.options})
      [] T.kind = "object" -> 1 + Max({Depth(T.shape[key]) : key \in DOMAIN T.shape})
      [] T.kind = "array" -> 1 + Depth(T.element)
      [] HasInnerType(T) -> 1 + Depth(T.innerType)
      [] T.kind = "effects" -> 1 + Depth(T.schema)
      [] T.kind = "intersection" -> 1 + Max({Depth(T.left), Depth(T.right)})
      [] OTHER -> 0

\* the ErrorIDs rules are tagged with, and the tags made of them
SchemaErrorIDs == {ID(1, <<"m">>), ID(2, <<"n">>)}

Tags == (SUBSET SchemaErrorIDs) \ {{}}

\* the rules without parts: z.string(), plain or tagged by zWithErrors
SimpleRules == {ZodString} \cup {ZodSchemaWithErrors(ZodString, E) : E \in Tags}

AggregatorInit ==
    /\ aggSchema \in SimpleRules
    /\ aggregate = None
    /\ aggPc = "building"
    /\ CodecIdle
    /\ EndpointIdle
    /\ WalkIdle
    /\ ResponseIdle
    /\ QueryIdle
    /\ BooleanIdle
    /\ FieldIdle
    /\ TreeIdle
    /\ RegistryIdle
    /\ FactoryIdle

Building == aggPc = "building" /\ Depth(aggSchema) < MaxDepth

Built(rule) ==
    /\ aggSchema' = rule
    /\ UNCHANGED <<aggregate, aggPc, notAggregatorVars>>

\* z.union([schema, other])
MakeUnion(other) == Building /\ Built(ZodUnion(<<aggSchema, other>>))

\* z.object({ p: schema, q: sibling })
MakeObject(sibling) ==
    Building /\ Built(ZodObject(<<"p">> :> aggSchema @@ <<"q">> :> sibling))

\* z.array(schema)
MakeArray == Building /\ Built(ZodArray(aggSchema))

\* schema.optional()
MakeOptional == Building /\ Built(ZodOptional(aggSchema))

\* schema.nullable()
MakeNullable == Building /\ Built(ZodNullable(aggSchema))

\* schema.refine(check)
MakeEffects == Building /\ Built(ZodEffects(aggSchema))

\* schema.and(other)
MakeIntersection(other) == Building /\ Built(ZodIntersection(aggSchema, other))

\* zWithErrors(map of the ErrorIDs E, () => schema), for a rule that has no
\* tag yet
TagSchema(E) ==
    /\ aggPc = "building"
    /\ ~aggSchema.tagged
    /\ Built(ZodSchemaWithErrors(aggSchema, E))

\* type Errors = GetSchemaErrors<typeof schema>
Aggregate ==
    /\ aggPc = "building"
    /\ aggregate' = GetSchemaErrors(aggSchema)
    /\ aggPc' = "aggregated"
    /\ UNCHANGED <<aggSchema, notAggregatorVars>>

AggregatorNext ==
    \/ \E other \in SimpleRules : MakeUnion(other)
    \/ \E sibling \in SimpleRules : MakeObject(sibling)
    \/ MakeArray
    \/ MakeOptional
    \/ MakeNullable
    \/ MakeEffects
    \/ \E other \in SimpleRules : MakeIntersection(other)
    \/ \E E \in Tags : TagSchema(E)
    \/ Aggregate

SpecAggregator == AggregatorInit /\ [][AggregatorNext]_vars

\* an object with one property that is a union of two differently tagged
\* rules and an untagged sibling property
TaggedPair ==
    ZodObject(<<"p">> :> ZodUnion(<<ZodSchemaWithErrors(ZodString, {ID(1, <<"m">>)}),
                                    ZodSchemaWithErrors(ZodString, {ID(2, <<"n">>)})>>)
              @@ <<"q">> :> ZodString)

\* what the sentence says of a union, an object and an array, read of the
\* rule whatever its tag
Composes(T, errors) ==
    /\ T.kind = "union" =>
           errors = UNION {GetSchemaErrors(T.options[i]) : i \in DOMAIN T.options}
    /\ T.kind = "object" =>
           errors = UNION {GetSchemaErrors(T.shape[key]) : key \in DOMAIN T.shape}
    /\ T.kind = "array" => errors = GetSchemaErrors(T.element)

Wrapped(T) == IF T.kind = "effects" THEN T.schema ELSE T.innerType

C11_WrapperKeepsErrors ==
    (/\ aggPc = "aggregated"
     /\ aggSchema.kind \in {"optional", "nullable", "effects"}
     /\ ~aggSchema.tagged
     /\ Wrapped(aggSchema).tagged) =>
        /\ aggregate = GetSchemaErrors(Wrapped(aggSchema))
        /\ aggregate = Wrapped(aggSchema).schemaErrors

(***************************************************************************)
(* InferEndpoint.  The request rule of an endpoint is z.object of some of  *)
(* query, params and body; the parts below are those of the Comment        *)
(* controller, with the rules of Comment, Post and User they are made of.  *)
(* InferEndpoint declares FailureResponse<400, GetSchemaErrors<request>[]>.*)
(***************************************************************************)
\* z.number(), z.boolean(): rules no branch of GetSchemaErrors matches
ZodNumber == [kind |-> "number", tagged |-> FALSE, schemaErrors |-> {}]

ZodBoolean == [kind |-> "boolean", tagged |-> FALSE, schemaErrors |-> {}]

\* Comment: id and body
CommentId == ZodSchemaWithErrors(ZodString, {CommentErrorIDs[<<"IDBlank">>]})

CommentBody == ZodSchemaWithErrors(ZodString, {CommentErrorIDs[<<"BodyBlank">>]})

\* Post: slug
PostSlug ==
    ZodSchemaWithErrors(ZodString, {PostErrorIDs[<<"InvalidSlug">>],
                                    PostErrorIDs[<<"LongSlug">>]})

\* Comment: pagination
CommentPagination ==
    ZodObject(<<"limit">> :> ZodOptional(ZodNumber)
              @@ <<"nextID">> :> ZodOptional(CommentId))

\* Get, Put, Delete: params
ParamsId == ZodObject(<<"id">> :> CommentId)

\* GetByRelation: query
QueryByRelation ==
    ZodIntersection(ZodObject(<<"userID">> :> ZodOptional(ZodString)
                              @@ <<"postID">> :> ZodOptional(ZodString)
                              @@ <<"popular">> :> ZodOptional(ZodBoolean)),
                    CommentPagination)

\* GetBySlug: params and query
ParamsBySlug == ZodObject(<<"username">> :> ZodString @@ <<"slug">> :> PostSlug)

QueryBySlug ==
    ZodIntersection(ZodObject(<<"popular">> :> ZodOptional(ZodBoolean)),
                    CommentPagination)

\* Post: body
BodyPost ==
    ZodObject(<<"postID">> :> ZodString
              @@ <<"body">> :> CommentBody
              @@ <<"parentID">> :> ZodOptional(CommentId))

\* Put: body
BodyPut == ZodObject(<<"body">> :> CommentBody)

RequestParts == {ParamsId, QueryByRelation, ParamsBySlug, QueryBySlug, BodyPost, BodyPut}

PartNames == {<<"query">>, <<"params">>, <<"body">>}

\* the request of Comment.endpoints.GetByRelation
GetByRelationRequest == <<"query">> :> QueryByRelation

EndpointInit ==
    /\ CodecIdle
    /\ TreeIdle
    /\ RegistryIdle
    /\ FactoryIdle
    /\ AggregatorIdle
    /\ WalkIdle
    /\ ResponseIdle
    /\ QueryIdle
    /\ BooleanIdle
    /\ FieldIdle
    /\ request = <<>>
    /\ badRequestErrors = None
    /\ endpointPc = "defining"

\* request: z.object({ ..., name: part })
DefinePart(name, part) ==
    /\ endpointPc = "defining"
    /\ name \notin DOMAIN request
    /\ request' = request @@ name :> part
    /\ UNCHANGED <<badRequestErrors, endpointPc, notEndpointVars>>

\* InferEndpoint<T>: GeneralEndpointResponses<T['request']>
InferEndpoint ==
    /\ endpointPc = "defining"
    /\ badRequestErrors' = GetSchemaErrors(ZodObject(request))
    /\ endpointPc' = "inferred"
    /\ UNCHANGED <<request, notEndpointVars>>

EndpointNext ==
    \/ \E name \in PartNames, part \in RequestParts : DefinePart(name, part)
    \/ InferEndpoint

SpecEndpoint == EndpointInit /\ [][EndpointNext]_vars

\* the error identifiers tagged on the rules reachable inside a rule
RECURSIVE ReachableTags(_)
ReachableTags(T) ==
    T.schemaErrors \cup
    CASE T.kind = "union" -> UNION {ReachableTags(T.options[i]) : i \in DOMAIN T.options}
      [] T.kind = "object" -> UNION {ReachableTags(T.shape[key]) : key \in DOMAIN T.shape}
      [] T.kind = "array" -> ReachableTags(T.element)
      [] T.kind \in {"optional", "nullable"} -> ReachableTags(T.innerType)
      [] T.kind = "effects" -> ReachableTags(T.schema)
      [] T.kind = "intersection" -> ReachableTags(T.left) \cup ReachableTags(T.right)
      [] OTHER -> {}

(***************************************************************************)
(* C12: for every endpoint request rule, the errors InferEndpoint declares *)
(* for the 400 response are exactly the error identifiers tagged on the    *)
(* rules reachable inside the request's query, params or body, those       *)
(* reached through an intersection (.and) included: the Comment id rule    *)
(* under pagination.nextID in Comment.GetByRelation.                       *)
(***************************************************************************)
C12_DeclaresReachable ==
    endpointPc = "inferred" =>
        /\ badRequestErrors = ReachableTags(ZodObject(request))
        /\ request = GetByRelationRequest =>
               CommentErrorIDs[<<"IDBlank">>] \in badRequestErrors

(***************************************************************************)
(* GetSchemaErrors on a schema that refers to itself.  A schema can only   *)
(* refer to itself through z.lazy(() => ...): every other rule is built    *)
(* from rules that exist already.  A schema is kept as a graph, the rules  *)
(* under the names leaf, node and root, each naming its parts; the         *)
(* evaluation of GetSchemaErrors is taken one rule at a time.              *)
(***************************************************************************)
\* z.lazy(getter): ZodLazy, whose _def holds the getter
ZodLazy(name) == [kind |-> "lazy", getter |-> name, tagged |-> FALSE, schemaErrors |-> {}]

LeafRules == SimpleRules

NodeRules ==
    {ZodLazy(name) : name \in {"root", "node", "leaf"}}
    \cup {ZodArray("leaf"), ZodOptional("leaf")}

RootRules ==
    {ZodObject(<<"p">> :> "node" @@ <<"q">> :> "leaf"),
     ZodUnion(<<"node", "leaf">>),
     ZodArray("node"),
     ZodOptional("node")}

\* the parts with a branch for ZodLazy that goes on to what the getter gives
Parts_followsGetter(T) ==
    IF T.tagged THEN {}
    ELSE CASE T.kind = "union" -> {T.options[i] : i \in DOMAIN T.options}
           [] T.kind = "object" -> {T.shape[key] : key \in DOMAIN T.shape}
           [] T.kind = "array" -> {T.element}
           [] HasInnerType(T) -> {T.innerType}
           [] T.kind = "lazy" -> {T.getter}
           [] OTHER -> {}

\* the names of the rules GetSchemaErrors<T> is taken of next, following
\* the branch T extends; a lazy rule extends none of them
Parts(T) ==
    IF T.tagged THEN {}
    ELSE CASE T.kind = "union" -> {T.options[i] : i \in DOMAIN T.options}
           [] T.kind = "object" -> {T.shape[key] : key \in DOMAIN T.shape}
           [] T.kind = "array" -> {T.element}
           [] HasInnerType(T) -> {T.innerType}
           [] OTHER -> {}

WalkInit ==
    /\ CodecIdle
    /\ TreeIdle
    /\ RegistryIdle
    /\ FactoryIdle
    /\ AggregatorIdle
    /\ EndpointIdle
    /\ ResponseIdle
    /\ QueryIdle
    /\ BooleanIdle
    /\ FieldIdle
    /\ \E leaf \in LeafRules, node \in NodeRules, root \in RootRules :
           schemaGraph = [leaf |-> leaf, node |-> node, root |-> root]
    /\ pending = {}
    /\ collected = {}
    /\ walkPc = "ready"

\* GetSchemaErrors<typeof root>
StartWalk ==
    /\ walkPc = "ready"
    /\ pending' = {"root"}
    /\ walkPc' = "walking"
    /\ UNCHANGED <<schemaGraph, collected, notWalkVars>>

\* one conditional type resolved: the tag of a tagged rule is taken, the
\* parts of a composed rule are left to be resolved
Resolve(name) ==
    /\ walkPc = "walking"
    /\ name \in pending
    /\ collected' = collected \cup schemaGraph[name].schemaErrors
    /\ pending' = (pending \ {name}) \cup Parts(schemaGraph[name])
    /\ UNCHANGED <<schemaGraph, walkPc, notWalkVars>>

\* nothing left to resolve: the type is known
FinishWalk ==
    /\ walkPc = "walking"
    /\ pending = {}
    /\ walkPc' = "done"
    /\ UNCHANGED <<schemaGraph, pending, collected, notWalkVars>>

WalkNext ==
    \/ StartWalk
    \/ \E name \in {"root", "node", "leaf"} : Resolve(name)
    \/ FinishWalk

SpecWalk == WalkInit /\ [][WalkNext]_vars /\ WF_vars(WalkNext)

(***************************************************************************)
(* C13: the aggregation terminates on a schema that refers to itself; the  *)
(* cyclic reference contributes no errors beyond those already collected   *)
(* and the walk does not go on through it.                                 *)
(***************************************************************************)
\* resolving the lazy rule adds no error and leaves nothing more to resolve
C13_LazyStep ==
    (/\ walkPc = "walking"
     /\ schemaGraph["node"].kind = "lazy"
     /\ "node" \in pending
     /\ "node" \notin pending') =>
        collected' = collected /\ pending' = pending \ {"node"}

Undefined == [t |-> "undefined"]

Str(text) == [t |-> "string", text |-> text]

Num(n) == [t |-> "number", n |-> n]

Arr(items) == [t |-> "array", items |-> items]

Obj(fields) == [t |-> "object", fields |-> fields]

\* value[key]
Get(value, key) ==
    IF value.t = "object"
    THEN IF key \in DOMAIN value.fields THEN value.fields[key] ELSE Undefined
    ELSE Undefined

ZodLiteral(value) ==
    [kind |-> "literal", value |-> value, tagged |-> FALSE, schemaErrors |-> {}]

ZodUndefined == [kind |-> "undefined", tagged |-> FALSE, schemaErrors |-> {}]

ZodAny == [kind |-> "any", tagged |-> FALSE, schemaErrors |-> {}]

\* array.max(n)
ArrayMax(array, n) == array @@ [maxLength |-> n]

\* array.nonempty()
ArrayNonEmpty(array) == array @@ [minLength |-> 1]

\* rule.safeParse(value).success
RECURSIVE Accepts(_, _)
Accepts(rule, value) ==
    CASE rule.kind = "literal" -> value = rule.value
      [] rule.kind = "undefined" -> value = Undefined
      [] rule.kind = "any" -> TRUE
      [] rule.kind = "string" -> value.t = "string"
      [] rule.kind = "optional" ->
           IF value = Undefined THEN TRUE ELSE Accepts(rule.innerType, value)
      [] rule.kind = "union" ->
           \E i \in DOMAIN rule.options : Accepts(rule.options[i], value)
      [] rule.kind = "array" ->
           IF value.t # "array" THEN FALSE
           ELSE /\ \A i \in DOMAIN value.items : Accepts(rule.element, value.items[i])
                /\ "maxLength" \in DOMAIN rule => Len(value.items) <= rule.maxLength
                /\ "minLength" \in DOMAIN rule => Len(value.items) >= rule.minLength
      [] rule.kind = "object" ->
           IF value.t # "object" THEN FALSE
           ELSE \A key \in DOMAIN rule.shape : Accepts(rule.shape[key], Get(value, key))
      [] OTHER -> FALSE

\* ResponseBodyStatus
ResponseBodyStatus == [success |-> Str(<<"success">>), failure |-> Str(<<"failure">>)]

\* zSuccessResponse letting any data pass when no data rule is given
zSuccessResponse_anyData(code, data) ==
    ZodObject([status |-> ZodLiteral(Num(code)),
               body |-> ZodObject([status |-> ZodLiteral(ResponseBodyStatus.success),
                                   data |-> IF data = None THEN ZodAny ELSE data])])

\* zSuccessResponse(code, data?): data is None when the argument is left out
zSuccessResponse(code, data) ==
    ZodObject([status |-> ZodLiteral(Num(code)),
               body |-> ZodObject([status |-> ZodLiteral(ResponseBodyStatus.success),
                                   data |-> IF data = None THEN ZodUndefined ELSE data])])

\* zResponseError without the check of the message
zResponseError_anyMessage(id, data) ==
    ZodObject([code |-> ZodLiteral(Num(id.code)),
               message |-> ZodAny,
               data |-> IF data = None THEN ZodUndefined ELSE data])

\* zResponseError(id, data?)
zResponseError(id, data) ==
    ZodObject([code |-> ZodLiteral(Num(id.code)),
               message |-> ZodLiteral(Str(id.message)),
               data |-> IF data = None THEN ZodUndefined ELSE data])

\* errors === undefined || !errors.length
NoErrorRules(errors) == IF errors = None THEN TRUE ELSE Len(errors.items) = 0

\* zFailureResponse without .max(0) on the array of no declared errors
zFailureResponse_anyErrors(code, errors, errorRequired) ==
    LET errorArray ==
            IF NoErrorRules(errors) THEN ZodArray(ZodAny)
            ELSE LET elements == IF Len(errors.items) > 1 THEN ZodUnion(errors.items)
                                 ELSE errors.items[1]
                     schema == ZodArray(elements)
                 IN  IF errorRequired THEN ArrayNonEmpty(schema) ELSE schema
    IN  ZodObject([status |-> ZodLiteral(Num(code)),
                   body |-> ZodObject([status |-> ZodLiteral(ResponseBodyStatus.failure),
                                       errors |-> errorArray])])

\* zFailureResponse with a body whose status is left unchecked
zFailureResponse_anyStatus(code, errors, errorRequired) ==
    LET errorArray ==
            IF NoErrorRules(errors) THEN ArrayMax(ZodArray(ZodAny), 0)
            ELSE LET elements == IF Len(errors.items) > 1 THEN ZodUnion(errors.items)
                                 ELSE errors.items[1]
                     schema == ZodArray(elements)
                 IN  IF errorRequired THEN ArrayNonEmpty(schema) ELSE schema
    IN  ZodObject([status |-> ZodLiteral(Num(code)),
                   body |-> ZodObject([status |-> ZodAny, errors |-> errorArray])])

\* zFailureResponse(code, errors?, { errorRequired = false }): errors is None
\* when the argument is left out, else the array of the rules
zFailureResponse(code, errors, errorRequired) ==
    LET errorArray ==
            IF NoErrorRules(errors) THEN ArrayMax(ZodArray(ZodAny), 0)
            ELSE LET elements == IF Len(errors.items) > 1 THEN ZodUnion(errors.items)
                                 ELSE errors.items[1]
                     schema == ZodArray(elements)
                 IN  IF errorRequired THEN ArrayNonEmpty(schema) ELSE schema
    IN  ZodObject([status |-> ZodLiteral(Num(code)),
                   body |-> ZodObject([status |-> ZodLiteral(ResponseBodyStatus.failure),
                                       errors |-> errorArray])])

\* the earlier zSuccessResponse(code, data?), whose body is the data rule itself
zSuccessResponseNoStatus(code, data) ==
    IF data = None
    THEN ZodObject([status |-> ZodLiteral(Num(code)), body |-> ZodObject(<<>>)])
    ELSE ZodObject([status |-> ZodLiteral(Num(code)), body |-> data])

\* the earlier zFailureResponse(code, errors?, { errorRequired = false }), whose
\* body has errors alone
zFailureResponseNoStatus(code, errors, errorRequired) ==
    LET errorArray ==
            IF NoErrorRules(errors) THEN ArrayMax(ZodArray(ZodAny), 0)
            ELSE LET elements == IF Len(errors.items) > 1 THEN ZodUnion(errors.items)
                                 ELSE errors.items[1]
                     schema == ZodArray(elements)
                 IN  IF errorRequired THEN ArrayNonEmpty(schema) ELSE schema
    IN  ZodObject([status |-> ZodLiteral(Num(code)),
                   body |-> ZodObject([errors |-> errorArray])])

\* zError(message, detail?) of the variant with messages
zError(message, detail) ==
    ZodObject([message |-> ZodLiteral(Str(message)),
               detail |-> IF detail = None THEN ZodUndefined ELSE detail])

\* zErrorResponse(code, errors?, { errorRequired = false }) of the variant with messages
zErrorResponse(code, errors, errorRequired) ==
    LET errorArray ==
            IF NoErrorRules(errors) THEN ArrayMax(ZodArray(ZodAny), 0)
            ELSE LET elements == IF Len(errors.items) > 1 THEN ZodUnion(errors.items)
                                 ELSE errors.items[1]
                     schema == ZodArray(elements)
                 IN  IF errorRequired THEN ArrayNonEmpty(schema) ELSE schema
    IN  ZodObject([status |-> ZodLiteral(Num(code)),
                   body |-> ZodObject([status |-> ZodLiteral(ResponseBodyStatus.failure),
                                       errors |-> errorArray])])

\* the status codes of the tests (TestEnum)
StatusCodes == {1, 2}

\* data rules: an array of strings and a string as in the tests, and a rule
\* that lets undefined pass
DataRules == {ZodString, ZodArray(ZodString), ZodOptional(ZodString)}

\* error identifiers and the data rule of an error
ErrorRuleIDs == {ID(1, <<"m">>), ID(2, <<"n">>)}

ErrorDataRule == ZodObject([id |-> ZodString])

ErrorRules ==
    {zResponseError(id, data) : id \in ErrorRuleIDs, data \in {None, ErrorDataRule}}

\* the lists of error rules given to zFailureResponse
ErrorRuleLists ==
    {Arr(<<>>),
     Arr(<<zResponseError(ID(1, <<"m">>), None)>>),
     Arr(<<zResponseError(ID(1, <<"m">>), None),
           zResponseError(ID(2, <<"n">>), ErrorDataRule)>>)}

\* the lists of error rules given to zErrorResponse
MessageRuleLists == {Arr(<<>>), Arr(<<zError(<<"m">>, None)>>)}

\* error objects, and values that are no error objects
ErrorValues ==
    {Obj(f) : f \in
        {g \in UNION {[keys -> {Num(1), Num(2), Str(<<"m">>), Str(<<"n">>),
                                Obj([id |-> Str(<<"x">>)]), Obj([id |-> Num(1)])}] :
                        keys \in {{"code", "message"}, {"code", "message", "data"}, {"message"}}} :
            /\ "code" \in DOMAIN g => g["code"].t = "number"
            /\ g["message"].t = "string"
            /\ "data" \in DOMAIN g => g["data"] \in {Obj([id |-> Str(<<"x">>)]),
                                                    Obj([id |-> Num(1)]), Str(<<"m">>)}}}

\* the values a body has under errors
ErrorsValues ==
    {Arr(<<>>),
     Arr(<<Obj([code |-> Num(1), message |-> Str(<<"m">>)])>>),
     Arr(<<Obj([code |-> Num(1), message |-> Str(<<"m">>)]),
           Obj([code |-> Num(2), message |-> Str(<<"n">>), data |-> Obj([id |-> Str(<<"x">>)])])>>),
     Arr(<<Obj([code |-> Num(2), message |-> Str(<<"m">>)])>>),
     Str(<<"m">>)}

DataValues == {Str(<<"d">>), Arr(<<Str(<<"wow">>)>>), Num(7)}

\* bodies: objects with some of status, data and errors
BodyValues ==
    {Obj(f) : f \in
        {g \in UNION {[keys -> {ResponseBodyStatus.success, ResponseBodyStatus.failure}
                                \cup DataValues \cup ErrorsValues] :
                        keys \in SUBSET {"status", "data", "errors"}} :
            /\ "status" \in DOMAIN g =>
                   g["status"] \in {ResponseBodyStatus.success, ResponseBodyStatus.failure}
            /\ "data" \in DOMAIN g => g["data"] \in DataValues
            /\ "errors" \in DOMAIN g => g["errors"] \in ErrorsValues}}

\* responses, with and without a body
ResponseValues ==
    {Obj([status |-> Num(code), body |-> body]) : code \in StatusCodes, body \in BodyValues}
    \cup {Obj([status |-> Num(code)]) : code \in StatusCodes}

ResponseInit ==
    /\ CodecIdle
    /\ TreeIdle
    /\ RegistryIdle
    /\ FactoryIdle
    /\ AggregatorIdle
    /\ EndpointIdle
    /\ WalkIdle
    /\ QueryIdle
    /\ BooleanIdle
    /\ FieldIdle
    /\ respCall = None
    /\ respRule = None
    /\ respValue = None
    /\ respAccepted = FALSE

CallZSuccessResponse(code, data) ==
    /\ respCall = None
    /\ respCall' = [name |-> "zSuccessResponse", code |-> code, data |-> data]
    /\ respRule' = zSuccessResponse(code, data)
    /\ UNCHANGED <<respValue, respAccepted, notResponseVars>>

CallZFailureResponse(code, errors, errorRequired) ==
    /\ respCall = None
    /\ respCall' = [name |-> "zFailureResponse", code |-> code, errors |-> errors,
                    errorRequired |-> errorRequired]
    /\ respRule' = zFailureResponse(code, errors, errorRequired)
    /\ UNCHANGED <<respValue, respAccepted, notResponseVars>>

CallZResponseError(id, data) ==
    /\ respCall = None
    /\ respCall' = [name |-> "zResponseError", id |-> id, data |-> data]
    /\ respRule' = zResponseError(id, data)
    /\ UNCHANGED <<respValue, respAccepted, notResponseVars>>

CallZSuccessResponseNoStatus(code, data) ==
    /\ respCall = None
    /\ respCall' = [name |-> "zSuccessResponseNoStatus", code |-> code, data |-> data]
    /\ respRule' = zSuccessResponseNoStatus(code, data)
    /\ UNCHANGED <<respValue, respAccepted, notResponseVars>>

CallZFailureResponseNoStatus(code, errors, errorRequired) ==
    /\ respCall = None
    /\ respCall' = [name |-> "zFailureResponseNoStatus", code |-> code, errors |-> errors,
                    errorRequired |-> errorRequired]
    /\ respRule' = zFailureResponseNoStatus(code, errors, errorRequired)
    /\ UNCHANGED <<respValue, respAccepted, notResponseVars>>

CallZErrorResponse(code, errors, errorRequired) ==
    /\ respCall = None
    /\ respCall' = [name |-> "zErrorResponse", code |-> code, errors |-> errors,
                    errorRequired |-> errorRequired]
    /\ respRule' = zErrorResponse(code, errors, errorRequired)
    /\ UNCHANGED <<respValue, respAccepted, notResponseVars>>

\* rule.safeParse(value)
SafeParse(value) ==
    /\ respCall # None
    /\ respValue' = value
    /\ respAccepted' = Accepts(respRule, value)
    /\ UNCHANGED <<respCall, respRule, notResponseVars>>

ResponseNext ==
    \/ \E code \in StatusCodes, data \in DataRules \cup {None} :
           CallZSuccessResponse(code, data)
    \/ \E code \in StatusCodes, errors \in ErrorRuleLists \cup {None}, errorRequired \in BOOLEAN :
           CallZFailureResponse(code, errors, errorRequired)
    \/ \E id \in ErrorRuleIDs, data \in {None, ErrorDataRule} : CallZResponseError(id, data)
    \/ \E code \in StatusCodes, data \in DataRules \cup {None} :
           CallZSuccessResponseNoStatus(code, data)
    \/ \E code \in StatusCodes, errors \in ErrorRuleLists \cup {None}, errorRequired \in BOOLEAN :
           CallZFailureResponseNoStatus(code, errors, errorRequired)
    \/ \E code \in StatusCodes, errors \in MessageRuleLists \cup {None}, errorRequired \in BOOLEAN :
           CallZErrorResponse(code, errors, errorRequired)
    \/ \E value \in ResponseValues \cup ErrorValues : SafeParse(value)

SpecResponse == ResponseInit /\ [][ResponseNext]_vars

\* a value has been parsed with a rule built by the call of the name
Parsed(name) == respCall # None /\ respCall.name = name /\ respValue # None

(***************************************************************************)
(* C14, as stated: a rule built by zSuccessResponse(code, dataRule?)       *)
(* accepts a value exactly when its status equals code, its body.status    *)
(* equals 'success', and its body.data satisfies dataRule when one was     *)
(* given, or its body has no data when none was given; it rejects a wrong  *)
(* status code, a body status 'failure', a body carrying data when none    *)
(* was declared, and a body whose data is missing or of the wrong type     *)
(* when a dataRule was declared.                                           *)
(***************************************************************************)
HasData(value) == Get(Get(value, "body"), "data") # Undefined

SuccessCriteria ==
    /\ Get(respValue, "status") = Num(respCall.code)
    /\ Get(Get(respValue, "body"), "status") = Str(<<"success">>)
    /\ IF respCall.data = None THEN ~HasData(respValue)
       ELSE Accepts(respCall.data, Get(Get(respValue, "body"), "data"))

C14_SuccessAsStated ==
    Parsed("zSuccessResponse") =>
        /\ respAccepted <=> SuccessCriteria
        /\ (respCall.data # None /\ ~HasData(respValue)) => ~respAccepted

(***************************************************************************)
(* C14, amended: the rule accepts a value exactly when the three           *)
(* conditions hold; a body whose data is missing is rejected when the      *)
(* declared dataRule does not itself let undefined pass.                   *)
(***************************************************************************)
C14_SuccessExactly ==
    Parsed("zSuccessResponse") =>
        /\ respAccepted <=> SuccessCriteria
        /\ Get(respValue, "status") # Num(respCall.code) => ~respAccepted
        /\ Get(Get(respValue, "body"), "status") = Str(<<"failure">>) => ~respAccepted
        /\ (respCall.data = None /\ HasData(respValue)) => ~respAccepted
        /\ (respCall.data \in {ZodString, ZodArray(ZodString)}
            /\ Get(Get(respValue, "body"), "data") \in {Undefined, Num(7)}) => ~respAccepted

\* the rule of zSuccessResponse(1, z.array(z.string())) has accepted the
\* response with the data ['wow']
C14_Witness ==
    /\ Parsed("zSuccessResponse")
    /\ respCall.data = ZodArray(ZodString)
    /\ Get(Get(respValue, "body"), "data") = Arr(<<Str(<<"wow">>)>>)
    /\ respAccepted

(***************************************************************************)
(* C15: a rule built by zFailureResponse(code, errorRules?) accepts a      *)
(* value only if its status equals code, its body.status equals 'failure', *)
(* and body.errors is an array of which every element matches one or more  *)
(* of the declared error rules; when no error rules are declared (left out *)
(* or an empty list) only the empty errors array is accepted.              *)
(***************************************************************************)
BodyErrors(value) == Get(Get(value, "body"), "errors")

C15_FailureOnlyIf ==
    (Parsed("zFailureResponse") /\ respAccepted) =>
        /\ Get(respValue, "status") = Num(respCall.code)
        /\ Get(Get(respValue, "body"), "status") = Str(<<"failure">>)
        /\ BodyErrors(respValue).t = "array"
        /\ IF NoErrorRules(respCall.errors) THEN BodyErrors(respValue) = Arr(<<>>)
           ELSE \A i \in DOMAIN BodyErrors(respValue).items :
                    \E j \in DOMAIN respCall.errors.items :
                        Accepts(respCall.errors.items[j], BodyErrors(respValue).items[i])

\* a rule with two declared error rules has accepted a response with an
\* error of each
C15_Witness ==
    /\ Parsed("zFailureResponse")
    /\ respAccepted
    /\ respCall.errors # None
    /\ Len(respCall.errors.items) = 2
    /\ Len(BodyErrors(respValue).items) = 2

(***************************************************************************)
(* C16: whenever errorRequired is true, the rule built by zFailureResponse *)
(* rejects a response whose errors array is empty, whatever error rules    *)
(* were passed (none included); when errorRequired is false or left out    *)
(* and error rules are declared, a response with an empty errors array is  *)
(* accepted.                                                               *)
(***************************************************************************)
C16_ErrorRequired ==
    Parsed("zFailureResponse") =>
        /\ (respCall.errorRequired /\ BodyErrors(respValue) = Arr(<<>>)) => ~respAccepted
        /\ (/\ ~respCall.errorRequired
            /\ ~NoErrorRules(respCall.errors)
            /\ Get(respValue, "status") = Num(respCall.code)
            /\ Get(Get(respValue, "body"), "status") = Str(<<"failure">>)
            /\ BodyErrors(respValue) = Arr(<<>>)) => respAccepted

(***************************************************************************)
(* C17: a rule built by zResponseError(identifier, dataRule?) accepts an   *)
(* error object exactly when its code equals identifier.code, its message  *)
(* equals identifier.message, and its data satisfies dataRule when one was *)
(* given, or is absent when none was given; it rejects a different code, a *)
(* different message, wrongly typed data, data present when none was       *)
(* declared, and data missing when a dataRule was declared.                *)
(***************************************************************************)
ErrorCriteria ==
    /\ Get(respValue, "code") = Num(respCall.id.code)
    /\ Get(respValue, "message") = Str(respCall.id.message)
    /\ IF respCall.data = None THEN Get(respValue, "data") = Undefined
       ELSE Accepts(respCall.data, Get(respValue, "data"))

C17_ErrorExactly ==
    Parsed("zResponseError") =>
        /\ respAccepted <=> ErrorCriteria
        /\ Get(respValue, "code") # Num(respCall.id.code) => ~respAccepted
        /\ Get(respValue, "message") # Str(respCall.id.message) => ~respAccepted
        /\ (respCall.data = None /\ Get(respValue, "data") # Undefined) => ~respAccepted
        /\ (respCall.data # None
            /\ Get(respValue, "data") \in {Undefined, Str(<<"m">>), Obj([id |-> Num(1)])}) =>
               ~respAccepted

\* the rule of an identifier with a data rule has accepted the error object
\* with that code, message and data
C17_Witness ==
    /\ Parsed("zResponseError")
    /\ respCall.data = ErrorDataRule
    /\ respValue = Obj([code |-> Num(respCall.id.code), message |-> Str(respCall.id.message),
                        data |-> Obj([id |-> Str(<<"x">>)])])
    /\ respAccepted

(***************************************************************************)
(* C18: no value accepted by a rule built by zSuccessResponse carries an   *)
(* errors field in its body, and every value accepted by a rule built by   *)
(* zFailureResponse carries an errors array in its body.                   *)
(***************************************************************************)
C18_EnvelopeErrors ==
    /\ (Parsed("zSuccessResponse") /\ respAccepted) => BodyErrors(respValue) = Undefined
    /\ (Parsed("zFailureResponse") /\ respAccepted) => BodyErrors(respValue).t = "array"

\* the builders of success rules, and of failure rules, of all versions
SuccessBuilders == {"zSuccessResponse", "zSuccessResponseNoStatus"}

FailureBuilders == {"zFailureResponse", "zFailureResponseNoStatus", "zErrorResponse"}

\* a value has been parsed with a rule built by one of the builders
ParsedBy(builders) == respCall # None /\ respCall.name \in builders /\ respValue # None

(***************************************************************************)
(* C26: every version of the envelope builders, the one that builds the    *)
(* body without a status field among them, rejects a failure response      *)
(* whose body.status is 'success', and rejects a success response whose    *)
(* body carries a data field when no data rule was given.                  *)
(***************************************************************************)
C26_AllVersionsReject ==
    /\ (ParsedBy(FailureBuilders)
            /\ Get(Get(respValue, "body"), "status") = ResponseBodyStatus.success) =>
           ~respAccepted
    /\ (ParsedBy(SuccessBuilders) /\ respCall.data = None /\ HasData(respValue)) =>
           ~respAccepted

\* some rule built by zSuccessResponse accepts the value
SomeSuccessRuleAccepts(value) ==
    \E code \in StatusCodes, data \in DataRules \cup {None} :
        Accepts(zSuccessResponse(code, data), value)

\* some rule built by zFailureResponse accepts the value
SomeFailureRuleAccepts(value) ==
    \E code \in StatusCodes, errors \in ErrorRuleLists \cup {None}, errorRequired \in BOOLEAN :
        Accepts(zFailureResponse(code, errors, errorRequired), value)

(***************************************************************************)
(* C27: whatever the status codes, the data rule and the error rules, no   *)
(* value is accepted both by a rule built by zSuccessResponse and by a     *)
(* rule built by zFailureResponse.                                         *)
(***************************************************************************)
C27_OneKind ==
    /\ (Parsed("zSuccessResponse") /\ respAccepted) => ~SomeFailureRuleAccepts(respValue)
    /\ (Parsed("zFailureResponse") /\ respAccepted) => ~SomeSuccessRuleAccepts(respValue)

\* a success rule has accepted a response whose body carries an empty errors
\* array next to its status
C27_Witness ==
    /\ Parsed("zSuccessResponse")
    /\ respAccepted
    /\ BodyErrors(respValue) = Arr(<<>>)

(***************************************************************************)
(* queryArray (util/schema/queryArray): a rule for a comma separated query *)
(* parameter.  The rule is z.string().regex(regex, invalidFormat) followed *)
(* by a transform that splits the string and checks each element.  The     *)
(* regular expressions are kept as written and matched by position.        *)
(***************************************************************************)
MaxInputLen == 5

\* the characters of the inputs: an alphanumeric character, the two separators, a
\* space and an underscore
QueryChars == {"a", ",", ":", " ", "_"}

\* the characters \w matches
WordChars == {"a", "_"}

\* a character class, by the characters it matches
Class(chars) == [op |-> "class", chars |-> chars]

\* [^\W_]: neither a non-word character nor the underscore
Alphanumeric == Class(QueryChars \ ((QueryChars \ WordChars) \cup {"_"}))

\* [^,]
NotComma == Class(QueryChars \ {","})

\* r1 r2 ... rn
Concat(parts) == [op |-> "concat", parts |-> parts]

\* r?
Optional(inner) == [op |-> "optional", inner |-> inner]

\* r+
OneOrMore(inner) == [op |-> "oneOrMore", inner |-> inner]

\* /^([^\W_]+,?)+[^,]$/
regexPlain ==
    Concat(<<OneOrMore(Concat(<<OneOrMore(Alphanumeric), Optional(Class({","}))>>)),
             NotComma>>)

\* /^([^\W_]+(:[^\W_]+)?,?)+[^,]$/
regexWithSubValues ==
    Concat(<<OneOrMore(Concat(<<OneOrMore(Alphanumeric),
                                Optional(Concat(<<Class({":"}), OneOrMore(Alphanumeric)>>)),
                                Optional(Class({","}))>>)),
             NotComma>>)

RECURSIVE MatchEnds(_, _, _)
RECURSIVE Repeat(_, _, _, _)
\* the positions at which a match of the expression that starts at position from can end
MatchEnds(regex, str, from) ==
    CASE regex.op = "class" ->
            IF from <= Len(str) /\ str[from] \in regex.chars THEN {from + 1} ELSE {}
      [] regex.op = "concat" ->
            IF Len(regex.parts) = 0
            THEN {from}
            ELSE UNION {MatchEnds(Concat(Tail(regex.parts)), str, next) :
                            next \in MatchEnds(Head(regex.parts), str, from)}
      [] regex.op = "optional" -> {from} \cup MatchEnds(regex.inner, str, from)
      [] regex.op = "oneOrMore" ->
            Repeat(regex.inner, str, MatchEnds(regex.inner, str, from), {})

\* the ends of one or more matches in a row: ends holds the ends to go on from
Repeat(inner, str, ends, seen) ==
    IF ends \subseteq seen
    THEN seen
    ELSE Repeat(inner, str,
                UNION {MatchEnds(inner, str, next) : next \in ends \ seen},
                seen \cup ends)

\* regex.test(str) of an expression anchored by ^ and $
RegexTest(regex, str) == (Len(str) + 1) \in MatchEnds(regex, str, 1)

RECURSIVE splitOn(_, _)
\* str.split(separator)
splitOn(str, separator) ==
    IF \A i \in 1..Len(str) : str[i] # separator
    THEN <<str>>
    ELSE LET first == CHOOSE i \in 1..Len(str) :
                          str[i] = separator /\ \A j \in 1..(i - 1) : str[j] # separator
         IN  <<SubSeq(str, 1, first - 1)>> \o splitOn(SubSeq(str, first + 1, Len(str)), separator)

\* the map of local names to ErrorIDs queryArray gives to zWithErrors
queryArrayErrors ==
    [invalidValue  |-> stringifyErrorID(QueryArrayErrorIDs[<<"InvalidValue">>]),
     invalidFormat |-> stringifyErrorID(QueryArrayErrorIDs[<<"InvalidFormat">>]),
     duplicate     |-> stringifyErrorID(QueryArrayErrorIDs[<<"InvalidValue">>])]

\* ctx.addIssue({code: custom, message, path})
Issue(message, path) == [message |-> message, path |-> path]

\* the values of a list as a set: new Set(list)
SetOf(list) == {list[i] : i \in 1..Len(list)}

\* the object {[key]: value}
KeyValue(key, value) == Obj(key :> value)

\* the template string `${key}: [${value}]`
SubValuePath(key, val) ==
    key \o <<":", " ", "[">> \o (IF val = Undefined THEN <<"undefined">> ELSE val.text) \o <<"]">>

\* unique && inSet(elementSet, key), with unique left out
IsDuplicate_always(options, elementSet, key) == key \in elementSet

\* unique && inSet(elementSet, key)
IsDuplicate(options, elementSet, key) == options.unique /\ key \in elementSet

\* allowedSet.size && !inSet(allowedSet, key), with the size left out
KeyNotAllowed_emptyList(allowedSet, key) == key \notin allowedSet

\* allowedSet.size && !inSet(allowedSet, key)
KeyNotAllowed(allowedSet, key) == allowedSet # {} /\ key \notin allowedSet

\* allowedSubValueSet.size && !inSet(allowedSubValueSet, value), a missing sub-value let through
SubValueNotAllowed_presentOnly(allowedSubValueSet, val) ==
    allowedSubValueSet # {} /\ val # Undefined /\ val \notin allowedSubValueSet

\* allowedSubValueSet.size && !inSet(allowedSubValueSet, value)
SubValueNotAllowed(allowedSubValueSet, val) ==
    allowedSubValueSet # {} /\ val \notin allowedSubValueSet

\* the callback of forEach in the transform, applied to one element; done holds
\* elementSet, elements and the issues added so far
TransformElement(element, options, done) ==
    LET pieces == IF options.withSubValues THEN splitOn(element, ":") ELSE <<element>>
        key    == pieces[1]
        val    == IF Len(pieces) >= 2 THEN Str(pieces[2]) ELSE Undefined
        allowedSet         == SetOf(options.allowed)
        allowedSubValueSet == SetOf(options.allowedSubValues)
    IN  IF IsDuplicate(options, done.elementSet, key)
        THEN [done EXCEPT !.issues = Append(@, Issue(queryArrayErrors.duplicate, <<key>>))]
        ELSE IF KeyNotAllowed(allowedSet, key)
        THEN [done EXCEPT !.issues = Append(@, Issue(queryArrayErrors.invalidValue, <<element>>))]
        ELSE IF options.withSubValues
        THEN IF SubValueNotAllowed(allowedSubValueSet, val)
             THEN [done EXCEPT !.issues =
                       Append(@, Issue(queryArrayErrors.invalidValue, <<SubValuePath(key, val)>>))]
             ELSE [done EXCEPT !.elements = Append(@, KeyValue(key, val)),
                               !.elementSet = @ \cup {key}]
        ELSE [done EXCEPT !.elements = Append(@, Str(key)),
                          !.elementSet = @ \cup {key}]

RECURSIVE TransformElements(_, _, _)
\* str.split(',').forEach(...)
TransformElements(elements, options, done) ==
    IF elements = <<>>
    THEN done
    ELSE TransformElements(Tail(elements), options,
                           TransformElement(Head(elements), options, done))

\* the outcome of safeParse
Success(data) == [success |-> TRUE, data |-> data, issues |-> <<>>]

Failure(problems) == [success |-> FALSE, data |-> None, issues |-> problems]

\* const elementSet = new Set(), were the set of the run before handed on
NewElementSet_handedOn(previous) == previous

\* const elementSet = new Set(): previous is the set the run before filled
NewElementSet(previous) == {}

\* safeParse(str) on a rule built with the options, previous being the elementSet
\* the run of the transform before filled: the transform runs only on a string
\* the regex check has passed
queryArrayParse(options, str, previous) ==
    LET regex == IF options.withSubValues THEN regexWithSubValues ELSE regexPlain
    IN  IF ~RegexTest(regex, str)
        THEN [output |-> Failure(<<Issue(queryArrayErrors.invalidFormat, <<>>)>>),
              elementSet |-> previous]
        ELSE LET done == TransformElements(splitOn(str, ","), options,
                             [elementSet |-> NewElementSet(previous),
                              elements |-> <<>>, issues |-> <<>>])
             IN  [output |-> IF done.issues = <<>>
                             THEN Success(Arr(done.elements))
                             ELSE Failure(done.issues),
                  elementSet |-> done.elementSet]

\* queryArray(allowed, options).safeParse(str), the rule freshly built
queryArray(options, str) == queryArrayParse(options, str, {}).output

\* the arguments of queryArray: allowed, and {withSubValues, unique, allowedSubValues}
QueryOptions ==
    {[allowed |-> a, withSubValues |-> w, unique |-> u, allowedSubValues |-> s] :
        a \in {<<>>, << <<"a">> >>}, w \in {FALSE}, u \in BOOLEAN, s \in {<<>>}}
    \cup
    {[allowed |-> a, withSubValues |-> w, unique |-> u, allowedSubValues |-> s] :
        a \in {<<>>, << <<"a">> >>}, w \in {TRUE}, u \in BOOLEAN,
        s \in {<<>>, <<Str(<<"a">>)>>, <<Str(<<"a">>), Undefined>>}}

QueryInputs == SeqsUpTo(QueryChars, MaxInputLen)

QueryInit ==
    /\ CodecIdle
    /\ TreeIdle
    /\ RegistryIdle
    /\ FactoryIdle
    /\ AggregatorIdle
    /\ EndpointIdle
    /\ WalkIdle
    /\ ResponseIdle
    /\ BooleanIdle
    /\ FieldIdle
    /\ qaOptions = None
    /\ qaInput = <<>>
    /\ qaOutput = None
    /\ qaElementSet = {}
    /\ qaFailedBefore = FALSE
    /\ qaPc = "ready"

\* const rule = queryArray(allowed, options)
CallQueryArray(options) ==
    /\ qaPc = "ready"
    /\ qaOptions' = options
    /\ qaPc' = "built"
    /\ UNCHANGED <<qaInput, qaOutput, qaElementSet, qaFailedBefore>>
    /\ UNCHANGED notQueryVars

\* rule.safeParse(str), on a rule just built
ParseQuery(str) ==
    /\ qaPc = "built"
    /\ qaInput' = str
    /\ LET outcome == queryArrayParse(qaOptions, str, qaElementSet)
       IN  qaOutput' = outcome.output /\ qaElementSet' = outcome.elementSet
    /\ qaPc' = "parsed"
    /\ UNCHANGED <<qaOptions, qaFailedBefore>>
    /\ UNCHANGED notQueryVars

QueryNext ==
    \/ \E options \in QueryOptions : CallQueryArray(options)
    \/ qaPc = "built" /\ \E str \in QueryInputs : ParseQuery(str)

SpecQuery == QueryInit /\ [][QueryNext]_vars

\* the inputs a rule is given one after the other
MaxReuseLen == 3

ReuseInputs == SeqsUpTo({"a", ",", ":"}, MaxReuseLen)

\* rule.safeParse(str) on a rule that has parsed before
ParseAgain(str) ==
    /\ qaPc \in {"parsed", "reparsed"}
    /\ qaInput' = str
    /\ LET outcome == queryArrayParse(qaOptions, str, qaElementSet)
       IN  qaOutput' = outcome.output /\ qaElementSet' = outcome.elementSet
    /\ qaFailedBefore' = (qaFailedBefore \/ ~qaOutput.success)
    /\ qaPc' = "reparsed"
    /\ UNCHANGED qaOptions
    /\ UNCHANGED notQueryVars

ReuseNext ==
    \/ \E options \in QueryOptions : CallQueryArray(options)
    \/ qaPc = "built" /\ \E str \in ReuseInputs : ParseQuery(str)
    \/ qaPc # "built" /\ \E str \in ReuseInputs : ParseAgain(str)

\* one rule, parsing one input after another
SpecReuse == QueryInit /\ [][ReuseNext]_vars

\* the letters and digits among the characters of the inputs
AlphanumericChars == {"a"}

\* a non-empty string of letters and digits
IsToken(str) == str # <<>> /\ \A i \in 1..Len(str) : str[i] \in AlphanumericChars

\* a key, or a key and a sub-value with a colon between them
IsKeyValue(str) ==
    LET pieces == splitOn(str, ":")
    IN  Len(pieces) \in {1, 2} /\ \A i \in 1..Len(pieces) : IsToken(pieces[i])

\* a comma separated list of one or more tokens
IsTokenList(str) ==
    LET tokens == splitOn(str, ",") IN \A i \in 1..Len(tokens) : IsToken(tokens[i])

\* a comma separated list of one or more keys, each with or without a sub-value
IsKeyValueList(str) ==
    LET tokens == splitOn(str, ",") IN \A i \in 1..Len(tokens) : IsKeyValue(tokens[i])

\* a rule built without an allow-list, without unique and without allowedSubValues
Unconstrained(options) ==
    options.allowed = <<>> /\ ~options.unique /\ options.allowedSubValues = <<>>

\* the tokens of a list, in input order
TokensOf(str) ==
    LET tokens == splitOn(str, ",") IN Arr([i \in 1..Len(tokens) |-> Str(tokens[i])])

\* the objects of a list of keys and sub-values, in input order
KeyValuesOf(str) ==
    LET tokens == splitOn(str, ",")
    IN  Arr([i \in 1..Len(tokens) |->
                LET pieces == splitOn(tokens[i], ":")
                IN  KeyValue(pieces[1],
                             IF Len(pieces) = 2 THEN Str(pieces[2]) ELSE Undefined)])

(***************************************************************************)
(* C19: a rule built by queryArray() without constraints accepts every     *)
(* comma separated list of one or more non-empty alphanumeric tokens and   *)
(* returns the tokens in input order; built with withSubValues it accepts  *)
(* every list of elements 'key' or 'key:value' and returns the objects     *)
(* {key: value}, or {key: undefined} for an element without a sub-value,   *)
(* in input order.                                                         *)
(***************************************************************************)
C19_ParsesTokenLists ==
    (qaPc = "parsed" /\ Unconstrained(qaOptions)) =>
        /\ (~qaOptions.withSubValues /\ IsTokenList(qaInput)) =>
               qaOutput = Success(TokensOf(qaInput))
        /\ (qaOptions.withSubValues /\ IsKeyValueList(qaInput)) =>
               qaOutput = Success(KeyValuesOf(qaInput))

\* a comma at either end of the string, or two commas in a row
MisplacedComma(str) ==
    /\ str # <<>>
    /\ \/ str[1] = ","
       \/ str[Len(str)] = ","
       \/ \E i \in 1..(Len(str) - 1) : str[i] = "," /\ str[i + 1] = ","

\* a character that is neither alphanumeric nor a comma nor, with sub-values,
\* the colon of an element 'key:value'
StrayCharacter(options, str) ==
    \/ \E i \in 1..Len(str) : str[i] \notin AlphanumericChars \cup {",", ":"}
    \/ /\ ~options.withSubValues
       /\ \E i \in 1..Len(str) : str[i] = ":"
    \/ /\ options.withSubValues
       /\ LET tokens == splitOn(str, ",")
          IN  \E i \in 1..Len(tokens) :
                  /\ \E j \in 1..Len(tokens[i]) : tokens[i][j] = ":"
                  /\ ~IsKeyValue(tokens[i])

(***************************************************************************)
(* C20: a rule built by queryArray rejects every input that holds a space, *)
(* a leading comma, a trailing comma, two adjacent commas or a character   *)
(* that is not alphanumeric (the separating commas and, with               *)
(* withSubValues, the colon inside a pair key:value apart), wherever the   *)
(* character stands; without withSubValues an input with a pair key:value  *)
(* is rejected too.                                                        *)
(***************************************************************************)
C20_RejectsMalformed ==
    (qaPc = "parsed" /\ (MisplacedComma(qaInput) \/ StrayCharacter(qaOptions, qaInput))) =>
        ~qaOutput.success

\* the rule's regex check passes the input
PassesFormat(options, str) ==
    RegexTest(IF options.withSubValues THEN regexWithSubValues ELSE regexPlain, str)

\* the key of an element: the part before ':' when sub-values are on
KeyOf(options, element) ==
    IF options.withSubValues THEN splitOn(element, ":")[1] ELSE element

\* the sub-value of an element, Undefined when it has none
SubValueOf(element) ==
    LET pieces == splitOn(element, ":")
    IN  IF Len(pieces) >= 2 THEN Str(pieces[2]) ELSE Undefined

\* some key occurs more than once in the input
HasRepeatedKey(options, str) ==
    LET elements == splitOn(str, ",")
    IN  \E i, j \in 1..Len(elements) :
            i # j /\ KeyOf(options, elements[i]) = KeyOf(options, elements[j])

\* two elements have the same key and different sub-values
HasRepeatedKeyWithOtherSubValue(options, str) ==
    LET elements == splitOn(str, ",")
    IN  \E i, j \in 1..Len(elements) :
            /\ i # j
            /\ KeyOf(options, elements[i]) = KeyOf(options, elements[j])
            /\ SubValueOf(elements[i]) # SubValueOf(elements[j])

\* every key of the input is in the allow-list, or there is no allow-list
KeysAllowed(options, str) ==
    LET elements == splitOn(str, ",")
    IN  options.allowed = <<>> \/
        \A i \in 1..Len(elements) : KeyOf(options, elements[i]) \in SetOf(options.allowed)

\* every sub-value of the input is in allowedSubValues, or there is no such list
SubValuesAllowed(options, str) ==
    LET elements == splitOn(str, ",")
    IN  (~options.withSubValues \/ options.allowedSubValues = <<>>) \/
        \A i \in 1..Len(elements) : SubValueOf(elements[i]) \in SetOf(options.allowedSubValues)

\* what a rule gives for each element of an input, nothing left out
AllElementsOf(options, str) ==
    LET elements == splitOn(str, ",")
    IN  Arr([i \in 1..Len(elements) |->
                IF options.withSubValues
                THEN KeyValue(KeyOf(options, elements[i]), SubValueOf(elements[i]))
                ELSE Str(elements[i])])

(***************************************************************************)
(* C21: duplicates are rejected exactly when unique is requested.  With    *)
(* unique, an input in which some key occurs more than once is rejected,   *)
(* with sub-values also when the sub-values of the two elements differ.    *)
(* Without unique, an input with repeated elements that passes the format  *)
(* check and the allow-lists is accepted and every occurrence is kept in   *)
(* the output; with unique, such an input without a repeated key is        *)
(* accepted as well.                                                       *)
(***************************************************************************)
C21_DuplicatesOnlyIfUnique ==
    qaPc = "parsed" =>
        LET wellFormed == /\ PassesFormat(qaOptions, qaInput)
                          /\ KeysAllowed(qaOptions, qaInput)
                          /\ SubValuesAllowed(qaOptions, qaInput)
        IN  /\ (qaOptions.unique /\ HasRepeatedKey(qaOptions, qaInput)) => ~qaOutput.success
            /\ (~qaOptions.unique /\ wellFormed /\ HasRepeatedKey(qaOptions, qaInput)) =>
                   qaOutput = Success(AllElementsOf(qaOptions, qaInput))
            /\ (qaOptions.unique /\ wellFormed /\ ~HasRepeatedKey(qaOptions, qaInput)) =>
                   qaOutput.success

\* a rule with unique and sub-values has rejected a well-formed input for a key
\* that comes twice with different sub-values
C21_Witness ==
    /\ qaPc = "parsed"
    /\ qaOptions.unique
    /\ qaOptions.withSubValues
    /\ IsKeyValueList(qaInput)
    /\ PassesFormat(qaOptions, qaInput)
    /\ KeysAllowed(qaOptions, qaInput)
    /\ SubValuesAllowed(qaOptions, qaInput)
    /\ HasRepeatedKeyWithOtherSubValue(qaOptions, qaInput)
    /\ ~qaOutput.success

\* the input has no repeated key, or unique is not requested
UniqueIfRequested(options, str) == ~options.unique \/ ~HasRepeatedKey(options, str)

\* some key of the input is outside a non-empty allow-list
HasKeyOutsideList(options, str) == ~KeysAllowed(options, str)

(***************************************************************************)
(* C22: keys are checked against the allow-list exactly when one is        *)
(* supplied.  With a non-empty allowed list an input is rejected if the    *)
(* key of some element (the part before ':' when sub-values are on) is not *)
(* in the list, and an input that passes the other checks is accepted if   *)
(* all its keys are in the list; with an empty or omitted list an input    *)
(* that passes the other checks is accepted whatever its keys.             *)
(***************************************************************************)
C22_AllowListOnlyIfSupplied ==
    qaPc = "parsed" =>
        LET otherChecksPass == /\ PassesFormat(qaOptions, qaInput)
                               /\ UniqueIfRequested(qaOptions, qaInput)
                               /\ SubValuesAllowed(qaOptions, qaInput)
        IN  /\ (qaOptions.allowed # <<>> /\ HasKeyOutsideList(qaOptions, qaInput)) =>
                   ~qaOutput.success
            /\ (qaOptions.allowed # <<>> /\ otherChecksPass
                    /\ ~HasKeyOutsideList(qaOptions, qaInput)) =>
                   qaOutput = Success(AllElementsOf(qaOptions, qaInput))
            /\ (qaOptions.allowed = <<>> /\ otherChecksPass) =>
                   qaOutput = Success(AllElementsOf(qaOptions, qaInput))

\* a rule with an allow-list and sub-values has rejected a well-formed input
\* for a key outside the list alone
C22_Witness ==
    /\ qaPc = "parsed"
    /\ qaOptions.allowed # <<>>
    /\ qaOptions.withSubValues
    /\ IsKeyValueList(qaInput)
    /\ PassesFormat(qaOptions, qaInput)
    /\ UniqueIfRequested(qaOptions, qaInput)
    /\ SubValuesAllowed(qaOptions, qaInput)
    /\ HasKeyOutsideList(qaOptions, qaInput)
    /\ \E i \in 1..Len(qaInput) : qaInput[i] = ":"
    /\ ~qaOutput.success

\* some element of the input has no sub-value
HasElementWithoutSubValue(str) ==
    LET elements == splitOn(str, ",")
    IN  \E i \in 1..Len(elements) : SubValueOf(elements[i]) = Undefined

(***************************************************************************)
(* C23: with withSubValues and a non-empty allowedSubValues an input is    *)
(* rejected if the sub-value of some element is not in allowedSubValues,   *)
(* an element without a sub-value counting as undefined, which passes only *)
(* if undefined is listed; an input that passes the other checks is        *)
(* accepted if all its sub-values are listed, and, with allowedSubValues   *)
(* empty or omitted, whatever its sub-values.                              *)
(***************************************************************************)
C23_SubValuesOnlyIfListed ==
    (qaPc = "parsed" /\ qaOptions.withSubValues) =>
        LET otherChecksPass == /\ PassesFormat(qaOptions, qaInput)
                               /\ UniqueIfRequested(qaOptions, qaInput)
                               /\ KeysAllowed(qaOptions, qaInput)
        IN  /\ ~SubValuesAllowed(qaOptions, qaInput) => ~qaOutput.success
            /\ (qaOptions.allowedSubValues # <<>> /\ HasElementWithoutSubValue(qaInput)
                    /\ Undefined \notin SetOf(qaOptions.allowedSubValues)) =>
                   ~qaOutput.success
            /\ (otherChecksPass /\ SubValuesAllowed(qaOptions, qaInput)) =>
                   qaOutput = Success(AllElementsOf(qaOptions, qaInput))

\* a rule whose allowedSubValues does not list undefined has rejected a
\* well-formed input with an element without a sub-value
C23_Witness ==
    /\ qaPc = "parsed"
    /\ qaOptions.withSubValues
    /\ qaOptions.allowedSubValues # <<>>
    /\ IsKeyValueList(qaInput)
    /\ PassesFormat(qaOptions, qaInput)
    /\ UniqueIfRequested(qaOptions, qaInput)
    /\ KeysAllowed(qaOptions, qaInput)
    /\ HasElementWithoutSubValue(qaInput)
    /\ \E i \in 1..Len(qaInput) : qaInput[i] = ":"
    /\ Undefined \notin SetOf(qaOptions.allowedSubValues)
    /\ ~qaOutput.success

\* the messages of the issues of the last parse
IssueMessagesOf(output) == {output.issues[i].message : i \in 1..Len(output.issues)}

(***************************************************************************)
(* C25: each of the three failure conditions of queryArray carries its own *)
(* identifier.  The issue of a key that is a duplicate under unique        *)
(* carries Duplicate (901), the issue of a key or sub-value outside its    *)
(* allow-list carries InvalidValue (902), and the issue of an input of     *)
(* invalid format carries InvalidFormat (900).                             *)
(***************************************************************************)
C25_OwnIdentifiers ==
    (qaPc = "parsed" /\ ~qaOutput.success) =>
        /\ ~PassesFormat(qaOptions, qaInput) =>
               IssueMessagesOf(qaOutput) =
                   {stringifyErrorID(QueryArrayErrorIDs[<<"InvalidFormat">>])}
        /\ (PassesFormat(qaOptions, qaInput) /\ UniqueIfRequested(qaOptions, qaInput)) =>
               IssueMessagesOf(qaOutput) =
                   {stringifyErrorID(QueryArrayErrorIDs[<<"InvalidValue">>])}
        /\ (PassesFormat(qaOptions, qaInput) /\ KeysAllowed(qaOptions, qaInput)
                /\ SubValuesAllowed(qaOptions, qaInput)) =>
               IssueMessagesOf(qaOutput) =
                   {stringifyErrorID(QueryArrayErrorIDs[<<"Duplicate">>])}

(***************************************************************************)
(* C28: a rule built by queryArray keeps no state between validations.     *)
(* Whatever it has parsed before, calls that failed on duplicates or       *)
(* disallowed values among them, the outcome of parsing an input is the    *)
(* outcome a freshly built rule with the same options gives; the options   *)
(* the allow-list sets were built from stay as they were.                  *)
(***************************************************************************)
C28_ReuseStep ==
    qaPc' = "reparsed" =>
        /\ qaOutput' = queryArray(qaOptions, qaInput')
        /\ qaOptions' = qaOptions

C28_Stateless == [][C28_ReuseStep]_vars

\* a rule with unique on which an earlier call failed has accepted an input
C28_Witness ==
    /\ qaPc = "reparsed"
    /\ qaFailedBefore
    /\ qaOptions.unique
    /\ qaElementSet # {}
    /\ qaOutput.success

(***************************************************************************)
(* booleanString (util/schema/booleanString): z.enum of the four strings   *)
(* followed by a transform to a boolean.                                   *)
(***************************************************************************)
MaxBoolLen == 5

\* the characters of the inputs: those of the four strings, and a capital
BoolChars == {"t", "r", "u", "e", "f", "a", "l", "s", "0", "1", "T"}

\* the options of z.enum
EnumValues ==
    {<<"t", "r", "u", "e">>, <<"f", "a", "l", "s", "e">>, <<"0">>, <<"1">>}

\* value.toLowerCase()
toLowerCase(str) == [i \in 1..Len(str) |-> IF str[i] = "T" THEN "t" ELSE str[i]]

\* booleanString with the case folded before the enum is looked at
booleanString_anyCase(str) ==
    IF toLowerCase(str) \in EnumValues
    THEN Success(toLowerCase(str) \in {<<"t", "r", "u", "e">>, <<"1">>})
    ELSE Failure(<<Issue(<<"invalid_enum_value">>, <<>>)>>)

\* booleanString.safeParse(str)
booleanString(str) ==
    IF str \in EnumValues
    THEN Success(toLowerCase(str) \in {<<"t", "r", "u", "e">>, <<"1">>})
    ELSE Failure(<<Issue(<<"invalid_enum_value">>, <<>>)>>)

BoolInputs == UNION {[1..n -> BoolChars] : n \in 0..MaxBoolLen}

BooleanInit ==
    /\ CodecIdle
    /\ TreeIdle
    /\ RegistryIdle
    /\ FactoryIdle
    /\ AggregatorIdle
    /\ EndpointIdle
    /\ WalkIdle
    /\ ResponseIdle
    /\ QueryIdle
    /\ FieldIdle
    /\ boolInput = <<>>
    /\ boolOutput = None
    /\ boolPc = "ready"

\* booleanString.safeParse(str)
ParseBoolean(str) ==
    /\ boolPc = "ready"
    /\ boolInput' = str
    /\ boolOutput' = booleanString(str)
    /\ boolPc' = "parsed"
    /\ UNCHANGED notBooleanVars

BooleanNext == boolPc = "ready" /\ \E str \in BoolInputs : ParseBoolean(str)

SpecBoolean == BooleanInit /\ [][BooleanNext]_vars

(***************************************************************************)
(* C24: booleanString accepts exactly the strings 'true', 'false', '0' and *)
(* '1' and rejects every other input; it gives true for 'true' and '1' and *)
(* false for 'false' and '0'.                                              *)
(***************************************************************************)
C24_BooleanStrings ==
    boolPc = "parsed" =>
        /\ boolOutput.success <=>
               boolInput \in {<<"t", "r", "u", "e">>, <<"f", "a", "l", "s", "e">>,
                              <<"0">>, <<"1">>}
        /\ boolInput \in {<<"t", "r", "u", "e">>, <<"1">>} => boolOutput.data = TRUE
        /\ boolInput \in {<<"f", "a", "l", "s", "e">>, <<"0">>} => boolOutput.data = FALSE

\* 'false' has been parsed and has given the boolean false
C24_Witness ==
    /\ boolPc = "parsed"
    /\ boolInput = <<"f", "a", "l", "s", "e">>
    /\ boolOutput.success
    /\ boolOutput.data = FALSE

(***************************************************************************)
(* The component rules of User and Project for names and descriptions:     *)
(* string rules with a least and a greatest length, each check with the    *)
(* message of its ErrorID.                                                 *)
(***************************************************************************)
MaxNameLen == 51

\* the value null
Null == [t |-> "null"]

\* z.string().min(least, blank).max(most, long)
StringMinMax(least, blank, most, long) ==
    [zString EXCEPT !.checks = <<Check("min", least, blank), Check("max", most, long)>>]

\* User.components.Misc.shape.firstName
firstName ==
    ZodNullable(StringMinMax(1, stringifyErrorID(UserErrorIDs[<<"BlankFirstName">>]),
                             30, stringifyErrorID(UserErrorIDs[<<"LongFirstName">>])))

\* User.components.Misc.shape.lastName
lastName ==
    ZodNullable(StringMinMax(1, stringifyErrorID(UserErrorIDs[<<"BlankLastName">>]),
                             30, stringifyErrorID(UserErrorIDs[<<"LongLastName">>])))

\* Project.nameSchema
nameSchema ==
    zWithErrors([blank |-> ProjectErrorIDs[<<"nameBlank">>],
                 long |-> ProjectErrorIDs[<<"nameTooLong">>]],
                [kind |-> "minmax", min |-> 0, max |-> rules.MAX_PROJECT_NAME]).outcome.value

\* Project.descriptionSchema
descriptionSchema ==
    zWithErrors([blank |-> ProjectErrorIDs[<<"descriptionBlank">>]],
                [kind |-> "min", min |-> 0]).outcome.value

\* Project.skillsSchema
skillsSchema ==
    ZodArray(zWithErrors([blank |-> ProjectErrorIDs[<<"skillBlank">>]],
                         [kind |-> "min", min |-> 0]).outcome.value)

\* the rules by name
FieldRules ==
    [firstName |-> firstName, lastName |-> lastName, nameSchema |-> nameSchema,
     descriptionSchema |-> descriptionSchema, skillsSchema |-> skillsSchema]

RECURSIVE FieldIssuesOf(_, _)
\* rule.safeParse(value): the messages of the issues, in order
FieldIssuesOf(rule, value) ==
    CASE rule.kind = "nullable" ->
            IF value = Null THEN <<>> ELSE FieldIssuesOf(rule.innerType, value)
      [] rule.kind = "string" ->
            IF value.t # "string" THEN <<"invalid_type">>
            ELSE IssueMessages(rule.checks, value.text)
      [] rule.kind = "array" ->
            IF value.t # "array" THEN <<"invalid_type">>
            ELSE IF value.items = <<>> THEN <<>>
            ELSE FieldIssuesOf(rule.element, Head(value.items))
                 \o FieldIssuesOf(rule, Arr(Tail(value.items)))

\* a string of n characters
Text(n) == Str([i \in 1..n |-> "x"])

FieldValues ==
    {Text(n) : n \in 0..MaxNameLen}
    \cup {Null}
    \cup {Arr(<<>>), Arr(<<Text(0)>>), Arr(<<Text(1)>>), Arr(<<Text(1), Text(0)>>)}

FieldInit ==
    /\ CodecIdle
    /\ TreeIdle
    /\ FactoryIdle
    /\ AggregatorIdle
    /\ EndpointIdle
    /\ WalkIdle
    /\ ResponseIdle
    /\ QueryIdle
    /\ BooleanIdle
    /\ rules \in {[UnreadRules EXCEPT !["MAX_PROJECT_NAME"] = n] : n \in 1..MaxRule}
    /\ registry = None
    /\ fieldName = None
    /\ fieldRule = None
    /\ fieldValue = None
    /\ fieldIssues = <<>>
    /\ fieldPc = "ready"

\* a module takes one of the component rules
TakeField(name) ==
    /\ fieldPc = "ready"
    /\ fieldName' = name
    /\ fieldRule' = FieldRules[name]
    /\ fieldPc' = "taken"
    /\ UNCHANGED <<fieldValue, fieldIssues, notFieldVars>>

\* rule.safeParse(value)
ParseField(value) ==
    /\ fieldPc = "taken"
    /\ fieldValue' = value
    /\ fieldIssues' = FieldIssuesOf(fieldRule, value)
    /\ fieldPc' = "parsed"
    /\ UNCHANGED <<fieldName, fieldRule, notFieldVars>>

FieldNext ==
    \/ \E name \in DOMAIN FieldRules : TakeField(name)
    \/ \E value \in FieldValues : ParseField(value)

SpecField == FieldInit /\ [][FieldNext]_vars

\* the messages among the issues of the last parse
FieldMessages == {fieldIssues[i] : i \in 1..Len(fieldIssues)}

\* a string value has been parsed with the rule of one of the names
ParsedText(names) ==
    fieldPc = "parsed" /\ fieldName \in names /\ fieldValue.t = "string"

(***************************************************************************)
(* C29: the firstName and lastName rules accept every non-empty string of  *)
(* at most 50 characters, the limit the LongFirstName and LongLastName     *)
(* messages name, and report LongFirstName / LongLastName only for strings *)
(* longer than 50 characters.                                              *)
(***************************************************************************)
C29_NameLimit ==
    ParsedText({"firstName", "lastName"}) =>
        LET long == stringifyErrorID(IF fieldName = "firstName"
                                     THEN UserErrorIDs[<<"LongFirstName">>]
                                     ELSE UserErrorIDs[<<"LongLastName">>])
            length == Len(fieldValue.text)
        IN  /\ (length >= 1 /\ length <= 50) => fieldIssues = <<>>
            /\ long \in FieldMessages => length > 50

\* the blank message of a Project rule
BlankOf(name) ==
    stringifyErrorID(CASE name = "nameSchema" -> ProjectErrorIDs[<<"nameBlank">>]
                       [] name = "descriptionSchema" -> ProjectErrorIDs[<<"descriptionBlank">>]
                       [] name = "skillsSchema" -> ProjectErrorIDs[<<"skillBlank">>])

(***************************************************************************)
(* C30: the Project name, description and skill rules reject the empty     *)
(* string, reporting nameBlank, descriptionBlank and skillBlank, and       *)
(* accept every non-empty string within the length limit.                  *)
(***************************************************************************)
C30_BlankRejected ==
    /\ ParsedText({"nameSchema", "descriptionSchema"}) =>
           /\ fieldValue.text = <<>> => BlankOf(fieldName) \in FieldMessages
           /\ (fieldValue.text # <<>>
                   /\ (fieldName = "nameSchema" =>
                           Len(fieldValue.text) <= rules.MAX_PROJECT_NAME)) =>
                  fieldIssues = <<>>
    /\ (fieldPc = "parsed" /\ fieldName = "skillsSchema" /\ fieldValue.t = "array") =>
           /\ (\E i \in DOMAIN fieldValue.items : fieldValue.items[i] = Text(0)) =>
                  BlankOf(fieldName) \in FieldMessages
           /\ (\A i \in DOMAIN fieldValue.items : fieldValue.items[i] # Text(0)) =>
                  fieldIssues = <<>>

(***************************************************************************)
(* The codec as a state machine: a caller stringifies an ErrorID and       *)
(* parses the result, or parses a string of its own.                       *)
(***************************************************************************)
Messages == SeqsUpTo(Chars, MaxMsgLen) \ {<<>>}

ErrorIDInputs == {ID(c, m) : c \in 0..MaxCode, m \in Messages}

StringInputs == SeqsUpTo(Chars, MaxStrLen)

CodecInit ==
    /\ CodecIdle
    /\ EndpointIdle
    /\ WalkIdle
    /\ ResponseIdle
    /\ QueryIdle
    /\ BooleanIdle
    /\ FieldIdle
    /\ TreeIdle
    /\ RegistryIdle
    /\ FactoryIdle
    /\ AggregatorIdle

Stringify(id) ==
    /\ codecPc = "idle"
    /\ errorID' = id
    /\ errorIDString' = stringifyErrorID(id)
    /\ codecPc' = "stringified"
    /\ UNCHANGED <<parsed, notCodecVars>>

GiveString(s) ==
    /\ codecPc = "idle"
    /\ errorIDString' = s
    /\ codecPc' = "given"
    /\ UNCHANGED <<errorID, parsed, notCodecVars>>

Parse ==
    /\ codecPc \in {"stringified", "given"}
    /\ parsed' = parseErrorID(errorIDString)
    /\ codecPc' = "parsed"
    /\ UNCHANGED <<errorID, errorIDString, notCodecVars>>

CodecNext ==
    \/ \E id \in ErrorIDInputs : Stringify(id)
    \/ \E s \in StringInputs : GiveString(s)
    \/ Parse

SpecCodec == CodecInit /\ [][CodecNext]_vars

(***************************************************************************)
(* C1: for every error identifier with a non-negative integer code and a   *)
(* non-empty message, parseErrorID(stringifyErrorID(x)) returns an         *)
(* identifier with the same code and the same message.                     *)
(***************************************************************************)
C1_RoundTrip ==
    (codecPc = "parsed" /\ errorID # None) =>
        /\ parsed.kind = "returned"
        /\ parsed.value.code = errorID.code
        /\ parsed.value.message = errorID.message

(***************************************************************************)
(* C2: parseErrorID throws, and returns no identifier, for every string    *)
(* that is not one or more decimal digits, then '|', then at least one     *)
(* character.                                                              *)
(***************************************************************************)
\* the form the claim names, read off the string itself
HasClaimedForm(s) ==
    LET digits == {i \in 1..Len(s) : \A j \in 1..i : IsDigit(s[j])}
    IN  /\ digits # {}
        /\ LET k == CHOOSE i \in digits : \A j \in digits : j <= i
           IN  Len(s) > k + 1 /\ s[k + 1] = "|"

C2_MalformedThrows ==
    (codecPc = "parsed" /\ ~HasClaimedForm(errorIDString)) =>
        parsed.kind = "thrown"

\* the four malformed shapes of the tests: no code, a non-numeric code, no
\* message, no separator
C2_Witness ==
    /\ codecPc = "parsed"
    /\ errorIDString \in {<<"|", "a">>, <<"a", "1", "|", "a">>,
                          <<"1", "|">>, <<"1", "a">>}
    /\ parsed.kind = "thrown"

====
